---- MODULE Spec2Model ----
(***************************************************************************)
(* The code-review assistant, in four parts, each with a specification:    *)
(*                                                                         *)
(*   Spec        the issue pipeline of one file: deduplicate_reviews of    *)
(*               backend/reviews/deduplicator.py, then rank_reviews of     *)
(*               backend/reviews/ranking.py                                *)
(*   SpecClient  one call of review_file_with_llm of                       *)
(*               backend/llm/reviewer.py                                   *)
(*   SpecBatch   one POST /review request: review_files of backend/main.py *)
(*   SpecCalls   two invocations of the pipeline of a file, their steps    *)
(*               interleaved, over one heap of dict objects                *)
(*                                                                         *)
(* A Python dict is a TLA+ function whose DOMAIN is the set of its keys,   *)
(* so `"line" in issue` is "line" \in DOMAIN issue.  A dict that is        *)
(* iterated (the buckets, the merged map of one category) is kept with its *)
(* insertion order.  Floats with two decimals are integers in hundredths   *)
(* (4.50 is 450).                                                          *)
(***************************************************************************)
EXTENDS Integers, Sequences, FiniteSets, TLC

VARIABLES
    file,            \* deduplicate_reviews(file=...)
    static_reviews,  \* deduplicate_reviews(static_reviews=...): category -> list of issues
    llm_reviews,     \* deduplicate_reviews(llm_reviews=...):    category -> list of issues
    merged,          \* deduplicator.py:44, category -> insertion-ordered (key, issue) list
    pos,             \* number of issues of the current source already ingested
    pc,              \* "static" | "llm" | "deduped" | "ranked" | "raised"
    final,           \* deduplicator.py:81, the value deduplicate_reviews returns
    ranked,          \* ranking.py:31, the value rank_reviews returns
    error,           \* the exception that ended the pipeline, "" when none
    \* review_file_with_llm
    language,        \* argument language
    ruleset,         \* argument ruleset: a name, "" or NoRuleset
    file_content,    \* argument file_content, by its sizes
    prompt,          \* reviewer.py:93, the fields the prompt embeds, in order
    attempt,         \* reviewer.py:137
    backoff,         \* reviewer.py:138, in seconds
    events,          \* the network attempts and sleeps made so far, in order
    raw_output,      \* reviewer.py:165, the text of the response
    parsed,          \* reviewer.py:186, the value review_file_with_llm returns
    cpc,             \* "ruleset" | "bytes" | "prompt" | "request" | "parse" | "returned" | "raised"
    cerror,          \* the message of the exception the call raised, "" when none
    exception,       \* the exception the last network attempt raised, if any
    \* review_files
    request,           \* the ReviewRequest: ruleset, temp_dir, files
    file_results,      \* main.py:237
    all_ranked_issues, \* main.py:238
    index,             \* number of files of request.files the loop has handled
    bpc,               \* "validate" | "files" | "responded" | "rejected" | "aborted"
    response,          \* the ReviewResponse, <<>> before it is returned
    \* invocations of deduplicate_reviews and rank_reviews over a heap
    heap,              \* the dict objects: the object at address a is heap[a]
    invocations,       \* per invocation: arguments, position, final, result
    merged_dicts,      \* deduplicator.py:44, the dict `merged` of each frame
    ranked_lists       \* ranking.py:31, the list `ranked` of each frame

pipelineVars == <<file, static_reviews, llm_reviews, merged, pos, pc, final, ranked, error>>

clientVars == <<language, ruleset, file_content, prompt, attempt, backoff, events,
                raw_output, parsed, cpc, cerror, exception>>

batchVars == <<request, file_results, all_ranked_issues, index, bpc, response>>

heapVars == <<heap, invocations, merged_dicts, ranked_lists>>

vars == <<pipelineVars, clientVars, batchVars, heapVars>>

-----------------------------------------------------------------------------
(* Python values *)

\* Python's None where the other values of the field are integers (`line`).
None == -1

\* Python's None where the other values of the field are strings (`rule`).
NoRule == "None"

\* dict.get(key, default)
Get(d, key, default) == IF key \in DOMAIN d THEN d[key] ELSE default

\* str(v) as the f-string of _issue_key formats a line number or None
Str(v) == IF v = None THEN "None" ELSE ToString(v)

-----------------------------------------------------------------------------
(* Tables *)

\* The category keys, in the order run_static_analysis and run_llm_review
\* create them; a dict iterates in insertion order.
CategoryOrder == <<"correctness", "security", "complexity", "readability", "tests">>

Categories == {CategoryOrder[i] : i \in 1..Len(CategoryOrder)}

SEVERITY_RANK == [low |-> 1, medium |-> 2, high |-> 3]

SEVERITY_WEIGHT == [critical |-> 4, high |-> 3, medium |-> 2, low |-> 1]

\* CATEGORY_REACH in hundredths
CATEGORY_REACH ==
    [correctness |-> 150, security |-> 150, complexity |-> 120,
     readability |-> 100, tests |-> 100]

-----------------------------------------------------------------------------
(* deduplicator.py *)

\* _issue_key with the line span left out of raw
IssueKeyWithoutSpan(f, category, line_start, line_end) == f \o ":" \o category

\* sha256(raw).hexdigest() is taken to be collision-free: the key is raw itself.
_issue_key(f, category, line_start, line_end) ==
    f \o ":" \o category \o ":" \o Str(line_start) \o ":" \o Str(line_end)

_normalize_issue(issue) ==
    IF "line" \in DOMAIN issue
    THEN <<issue["line"], issue["line"]>>
    ELSE <<Get(issue, "line_start", 0), Get(issue, "line_end", 0)>>

\* A lookup that sees only the key inserted last
HasKeyLastOnly(bucket, key) == bucket # <<>> /\ bucket[Len(bucket)].key = key

\* key in merged[category]
HasKey(bucket, key) == \E i \in 1..Len(bucket) : bucket[i].key = key

\* position of key in the insertion-ordered dict
KeyIndex(bucket, key) == CHOOSE i \in 1..Len(bucket) : bucket[i].key = key

\* SEVERITY_RANK.get(severity, 0)
SeverityRankOf(severity) == Get(SEVERITY_RANK, severity, 0)

\* ingest with the severity test reversed
ReplacesWeaker(existing, issue) ==
    LET existing_sev == SeverityRankOf(existing["severity"])
        new_sev      == SeverityRankOf(issue["severity"])
    IN  \/ new_sev < existing_sev
        \/ /\ existing_sev = new_sev
           /\ Get(existing, "rule", NoRule) = NoRule
           /\ Get(issue, "rule", NoRule) # NoRule

\* ingest without the rule test of lines 70-75
ReplacesSeverityOnly(existing, issue) ==
    SeverityRankOf(issue["severity"]) > SeverityRankOf(existing["severity"])

\* ingest with >= for > in line 66
ReplacesOnTie(existing, issue) ==
    SeverityRankOf(issue["severity"]) >= SeverityRankOf(existing["severity"])

\* The two tests of ingest that overwrite merged[category][key] (lines 66-75)
Replaces(existing, issue) ==
    LET existing_sev == SeverityRankOf(existing["severity"])
        new_sev      == SeverityRankOf(issue["severity"])
    IN  \/ new_sev > existing_sev
        \/ /\ existing_sev = new_sev
           /\ Get(existing, "rule", NoRule) = NoRule
           /\ Get(issue, "rule", NoRule) # NoRule

\* An overwrite that leaves the source stamp of the record it discards
StoredKeepsSource(existing, issue) == [issue EXCEPT !["source"] = existing["source"]]

\* What lines 67 and 75 store over existing: merged[category][key] = issue
Stored(existing, issue) == issue

\* An assignment that deletes the key and inserts it anew: the record goes
\* to the end of the dict
SetItemAtEnd(bucket, i, issue) ==
    Append([k \in 1..(Len(bucket) - 1) |-> IF k < i THEN bucket[k] ELSE bucket[k + 1]],
           [key |-> bucket[i].key, issue |-> issue])

\* merged[category][key] = issue for a key the dict holds, at position i
\* (lines 67 and 75): the key keeps its place in the iteration order
SetItem(bucket, i, issue) == [bucket EXCEPT ![i].issue = issue]

\* issue = issue.copy(); issue["source"] = source
Stamp(raw, source) == ("source" :> source) @@ raw

\* One iteration of the inner loop of ingest (lines 50-75) on merged map m.
\* ok = FALSE is the KeyError of existing["severity"] / issue["severity"].
IngestIssue(m, f, category, raw, source) ==
    LET issue  == Stamp(raw, source)
        span   == _normalize_issue(issue)
        key    == _issue_key(f, category, span[1], span[2])
        bucket == m[category]
    IN  IF ~HasKey(bucket, key)
        THEN [ok |-> TRUE,
              merged |-> [m EXCEPT ![category] =
                              Append(bucket, [key |-> key, issue |-> issue])]]
        ELSE LET i        == KeyIndex(bucket, key)
                 existing == bucket[i].issue
             IN  IF "severity" \notin DOMAIN existing \/ "severity" \notin DOMAIN issue
                 THEN [ok |-> FALSE, merged |-> m]
                 ELSE IF Replaces(existing, issue)
                      THEN [ok |-> TRUE,
                            merged |-> [m EXCEPT ![category] =
                                            SetItem(bucket, i, Stored(existing, issue))]]
                      ELSE [ok |-> TRUE, merged |-> m]

\* The (category, issue) pairs of a bucket dict in the order ingest visits them
RECURSIVE FlattenFrom(_, _)
FlattenFrom(reviews, c) ==
    IF c > Len(CategoryOrder) THEN <<>>
    ELSE [i \in 1..Len(reviews[CategoryOrder[c]]) |->
             [category |-> CategoryOrder[c], issue |-> reviews[CategoryOrder[c]][i]]]
         \o FlattenFrom(reviews, c + 1)

Flatten(reviews) == FlattenFrom(reviews, 1)

\* lines 81-85: final[category] = list(issue_map.values())
Values(m) == [c \in Categories |-> [i \in 1..Len(m[c]) |-> m[c][i].issue]]

-----------------------------------------------------------------------------
(* ranking.py *)

\* round(x, 2) of a non-negative x given in units of 1/10000, in hundredths
\* (round-half-even on the decimal value)
Round2(x) ==
    LET q == x \div 100
        r == x % 100
    IN  IF r > 50 \/ (r = 50 /\ q % 2 = 1) THEN q + 1 ELSE q

\* compute_impact raises KeyError: issue["severity"], SEVERITY_WEIGHT[severity]
ImpactRaises(issue) ==
    \/ "severity" \notin DOMAIN issue
    \/ issue["severity"] \notin DOMAIN SEVERITY_WEIGHT

\* compute_impact with the confidence of llm for every source
ComputeImpactOneConfidence(issue, category) ==
    Round2(SEVERITY_WEIGHT[issue["severity"]] * 100 * Get(CATEGORY_REACH, category, 100))

\* compute_impact, in hundredths; confidence (1.0 / 0.7) and reach in hundredths
compute_impact(issue, category) ==
    LET severity       == issue["severity"]
        source         == Get(issue, "source", "llm")
        severity_score == SEVERITY_WEIGHT[severity]
        confidence     == IF source = "llm" THEN 100 ELSE 70
        reach          == Get(CATEGORY_REACH, category, 100)
    IN  Round2(severity_score * confidence * reach)

\* issue_with_score of rank_reviews (lines 35-38)
Scored(issue, category) ==
    ("category" :> category) @@ ("impact" :> compute_impact(issue, category)) @@ issue

\* The insertion of a sort without reverse=True
RECURSIVE SortedInsertAscending(_, _)
SortedInsertAscending(sorted, x) ==
    IF sorted = <<>> THEN <<x>>
    ELSE IF sorted[Len(sorted)]["impact"] <= x["impact"]
         THEN Append(sorted, x)
         ELSE Append(SortedInsertAscending(SubSeq(sorted, 1, Len(sorted) - 1), x),
                     sorted[Len(sorted)])

\* The insertion of a sort that puts a record before the records of its impact
RECURSIVE SortedInsertUnstable(_, _)
SortedInsertUnstable(sorted, x) ==
    IF sorted = <<>> THEN <<x>>
    ELSE IF sorted[Len(sorted)]["impact"] > x["impact"]
         THEN Append(sorted, x)
         ELSE Append(SortedInsertUnstable(SubSeq(sorted, 1, Len(sorted) - 1), x),
                     sorted[Len(sorted)])

\* list.sort(key=impact, reverse=True): stable, equal keys keep their order
RECURSIVE SortedInsert(_, _)
SortedInsert(sorted, x) ==
    IF sorted = <<>> THEN <<x>>
    ELSE IF sorted[Len(sorted)]["impact"] >= x["impact"]
         THEN Append(sorted, x)
         ELSE Append(SortedInsert(SubSeq(sorted, 1, Len(sorted) - 1), x),
                     sorted[Len(sorted)])

RECURSIVE SortFrom(_, _, _)
SortFrom(list, k, acc) ==
    IF k > Len(list) THEN acc ELSE SortFrom(list, k + 1, SortedInsert(acc, list[k]))

SortByImpactDesc(list) == SortFrom(list, 1, <<>>)

\* rank_reviews on a bucket dict none of whose issues makes compute_impact raise
rank_reviews(reviews) ==
    LET flat == Flatten(reviews)
    IN  SortByImpactDesc([k \in 1..Len(flat) |-> Scored(flat[k].issue, flat[k].category)])

RankRaises(reviews) ==
    \E k \in 1..Len(Flatten(reviews)) : ImpactRaises(Flatten(reviews)[k].issue)

-----------------------------------------------------------------------------
(* Inputs: the bucket dicts deduplicate_reviews is called with.  Both dicts  *)
(* hold the five category keys, as main.py builds them.  A call is one of    *)
(* five families, each bounded in its number of issues:                      *)
(*   General  two categories, a line / a null line / no line, any severity   *)
(*            of the Issue Record, no rule                                   *)
(*   SameKey  one key, any severity of the Issue Record, a rule or none      *)
(*   Rank     two categories, a line or none, severity medium or high        *)
(*   Wide     five categories, any severity a reviewer can emit              *)
(*   Odd      one key, any severity a reviewer can emit                      *)

\* Most issues in one call whose issues differ in category, location and severity
MaxIssues == 2

\* Most issues in one call whose issues all share one key
MaxSameKey == 3

\* Most issues in one call whose issues have a line or none
MaxRanked == 3

\* Most issues in one call over all five categories and all severities
MaxWide == 1

\* Most issues in one call whose issues share one key and have any severity
MaxOdd == 2

Sources == {"static", "llm"}

\* The categories that hold issues, but in the calls over all five
InputCats == {"correctness", "readability"}

\* The line numbers issues carry
LineVals == {1}

\* The severities the producers are specified to emit
Severities == {"low", "medium", "high"}

\* The severities the static analysers emit
StaticSeverities == {"medium", "high"}

\* A severity key that is missing from the issue dict
NoSeverity == "<missing>"

\* Severities as a reviewer may emit them: also one the ranker alone knows,
\* one nobody knows, and none at all
AnySeverity == Severities \cup {"critical", "info", NoSeverity}

Rules == {NoRule, "RH-01"}

\* What one issue of a call is: where it is ingested from, and its fields.
\* No producer of the repository emits line_start / line_end.
GeneralShapes ==
    {s \in [source : Sources, category : InputCats, hasLine : BOOLEAN,
            line : LineVals \cup {None}, severity : Severities, rule : {NoRule}] :
        ~s.hasLine => s.line = None}

SameKeyShapes ==
    [source : Sources, category : {"correctness"}, hasLine : {TRUE},
     line : LineVals, severity : Severities, rule : Rules]

RankShapes ==
    {s \in [source : Sources, category : InputCats, hasLine : BOOLEAN,
            line : LineVals \cup {None}, severity : StaticSeverities, rule : {NoRule}] :
        s.hasLine <=> s.line # None}

WideShapes ==
    [source : Sources, category : Categories, hasLine : {TRUE},
     line : LineVals, severity : AnySeverity, rule : {NoRule}]

OddShapes ==
    [source : Sources, category : {"correctness"}, hasLine : {TRUE},
     line : LineVals, severity : AnySeverity, rule : {NoRule}]

CategoryIndex(c) == CHOOSE i \in 1..Len(CategoryOrder) : CategoryOrder[i] = c

\* Ingestion order of the bucket an issue is in: static before llm, then category
BucketRank(s) ==
    (IF s.source = "static" THEN 0 ELSE Len(CategoryOrder)) + CategoryIndex(s.category)

\* The issues of one call, listed in ingestion order
ShapeSeqs(S, n) ==
    {s \in [1..n -> S] : \A i \in 1..(n - 1) : BucketRank(s[i]) <= BucketRank(s[i + 1])}

Calls ==
    UNION ({ShapeSeqs(GeneralShapes, n) : n \in 0..MaxIssues}
           \cup {ShapeSeqs(SameKeyShapes, n) : n \in 0..MaxSameKey}
           \cup {ShapeSeqs(RankShapes, n) : n \in 0..MaxRanked}
           \cup {ShapeSeqs(WideShapes, n) : n \in 0..MaxWide}
           \cup {ShapeSeqs(OddShapes, n) : n \in 0..MaxOdd})

\* The issue dict of shape s; message identifies the issue: it is the issue's
\* position in the ingestion order of the call
MkIssue(s, id) ==
    LET base    == [message |-> id, rule |-> s.rule]
        withSev == IF s.severity = NoSeverity THEN base
                   ELSE ("severity" :> s.severity) @@ base
    IN  IF s.hasLine THEN ("line" :> s.line) @@ withSev ELSE withSev

Bucket(call, source, c) ==
    LET idx == {i \in DOMAIN call : call[i].source = source /\ call[i].category = c}
    IN  IF idx = {} THEN <<>>
        ELSE LET lo == CHOOSE i \in idx : \A j \in idx : i <= j
             IN  [k \in 1..Cardinality(idx) |-> MkIssue(call[lo + k - 1], lo + k - 1)]

Reviews(call, source) == [c \in Categories |-> Bucket(call, source, c)]

-----------------------------------------------------------------------------
(* The pipeline of one file: main.py:268-276 *)

\* No file is in the pipeline
PipelineIdle ==
    /\ file = ""
    /\ static_reviews = <<>>
    /\ llm_reviews = <<>>
    /\ merged = <<>>
    /\ pos = 0
    /\ pc = "idle"
    /\ final = <<>>
    /\ ranked = <<>>
    /\ error = ""

\* review_file_with_llm is not running
ClientIdle ==
    /\ language = ""
    /\ prompt = <<>>
    /\ exception = ""
    /\ ruleset = ""
    /\ file_content = [chars |-> 0, bytes |-> 0, trailing |-> 0]
    /\ attempt = 0
    /\ backoff = 0
    /\ events = <<>>
    /\ raw_output = <<>>
    /\ parsed = <<>>
    /\ cpc = "idle"
    /\ cerror = ""

\* No request is being served
BatchIdle ==
    /\ request = <<>>
    /\ file_results = <<>>
    /\ all_ranked_issues = <<>>
    /\ index = 0
    /\ bpc = "idle"
    /\ response = <<>>

\* No invocation runs and no object is allocated
HeapIdle ==
    /\ heap = <<>>
    /\ invocations = <<>>
    /\ merged_dicts = <<>>
    /\ ranked_lists = <<>>

\* merged starts with every category empty: both bucket dicts hold the five
\* keys in CategoryOrder, so the setdefault of line 48 creates exactly these.
Init ==
    \E call \in Calls :
        /\ file = "a.py"
        /\ static_reviews = Reviews(call, "static")
        /\ llm_reviews = Reviews(call, "llm")
        /\ merged = [c \in Categories |-> <<>>]
        /\ pos = 0
        /\ pc = "static"
        /\ final = <<>>
        /\ ranked = <<>>
        /\ error = ""
        /\ ClientIdle
        /\ BatchIdle
        /\ HeapIdle

\* One iteration of the inner loop of ingest(source_reviews, source)
Ingest(source_reviews, source) ==
    /\ pos < Len(Flatten(source_reviews))
    /\ LET e == Flatten(source_reviews)[pos + 1]
           r == IngestIssue(merged, file, e.category, e.issue, source)
       IN  IF r.ok
           THEN /\ merged' = r.merged
                /\ pos' = pos + 1
                /\ UNCHANGED <<pc, error>>
           ELSE /\ pc' = "raised"
                /\ error' = "KeyError"
                /\ UNCHANGED <<merged, pos>>
    /\ UNCHANGED <<file, static_reviews, llm_reviews, final, ranked>>
    /\ UNCHANGED <<clientVars, batchVars, heapVars>>

\* ingest(static_reviews, "static"), line 77
IngestStatic == pc = "static" /\ Ingest(static_reviews, "static")

\* line 77 returns, line 78 is entered
StartLlm ==
    /\ pc = "static"
    /\ pos = Len(Flatten(static_reviews))
    /\ pc' = "llm"
    /\ pos' = 0
    /\ UNCHANGED <<file, static_reviews, llm_reviews, merged, final, ranked, error>>
    /\ UNCHANGED <<clientVars, batchVars, heapVars>>

\* ingest(llm_reviews, "llm"), line 78
IngestLlm == pc = "llm" /\ Ingest(llm_reviews, "llm")

\* lines 81-85
ReturnFinal ==
    /\ pc = "llm"
    /\ pos = Len(Flatten(llm_reviews))
    /\ final' = Values(merged)
    /\ pc' = "deduped"
    /\ UNCHANGED <<file, static_reviews, llm_reviews, merged, pos, ranked, error>>
    /\ UNCHANGED <<clientVars, batchVars, heapVars>>

\* rank_reviews(merged_reviews), main.py:276
RankReviews ==
    /\ pc = "deduped"
    /\ IF RankRaises(final)
       THEN /\ pc' = "raised"
            /\ error' = "KeyError"
            /\ UNCHANGED ranked
       ELSE /\ ranked' = rank_reviews(final)
            /\ pc' = "ranked"
            /\ UNCHANGED error
    /\ UNCHANGED <<file, static_reviews, llm_reviews, merged, pos, final>>
    /\ UNCHANGED <<clientVars, batchVars, heapVars>>

Next == IngestStatic \/ StartLlm \/ IngestLlm \/ ReturnFinal \/ RankReviews

Spec == Init /\ [][Next]_vars

-----------------------------------------------------------------------------
(* What the properties below speak about *)

\* The issues of the call in ingestion order, each with the bucket it is in
Ingested ==
    LET s == Flatten(static_reviews)
        l == Flatten(llm_reviews)
    IN  [k \in 1..(Len(s) + Len(l)) |->
            IF k <= Len(s)
            THEN [category |-> s[k].category, issue |-> s[k].issue, source |-> "static"]
            ELSE [category |-> l[k - Len(s)].category, issue |-> l[k - Len(s)].issue,
                  source |-> "llm"]]

\* deduplicate_reviews has just returned
DedupReturned == pc = "deduped"

\* The ingested issues that share the key of output record i of category c
Group(c, i) ==
    {k \in DOMAIN Ingested :
        /\ Ingested[k].category = c
        /\ _normalize_issue(Ingested[k].issue) = _normalize_issue(final[c][i])}

\* The ingested issue an output record is a copy of: the fields of the input
\* are all in the output, and message tells the issues of a call apart
Origin(rec) ==
    CHOOSE k \in DOMAIN Ingested :
        \A f \in DOMAIN Ingested[k].issue : f \in DOMAIN rec /\ rec[f] = Ingested[k].issue[f]

Sev(issue) == Get(issue, "severity", NoSeverity)

\* The issue has one of the three severities of the Issue Record
Rated(issue) == Sev(issue) \in Severities

\* low < medium < high
RankLMH(issue) ==
    CASE Sev(issue) = "low" -> 1
      [] Sev(issue) = "medium" -> 2
      [] Sev(issue) = "high" -> 3

HasRule(issue) == Get(issue, "rule", NoRule) # NoRule

\* a is at least b in (severity rank, has-rule)
AtLeast(a, b) ==
    \/ RankLMH(a) > RankLMH(b)
    \/ RankLMH(a) = RankLMH(b) /\ (HasRule(a) \/ ~HasRule(b))

-----------------------------------------------------------------------------
(* Deduplicator *)

\* C1: among the records that share a deduplication key, the one kept has the
\* highest severity rank (low < medium < high): no colliding record of severity
\* low, medium or high outranks the kept one; a high and a low colliding
\* record leave a high one, whatever their sources and order.
C1_HighestSeverityKept ==
    DedupReturned =>
        \A c \in Categories : \A i \in 1..Len(final[c]) : \A k \in Group(c, i) :
            Rated(Ingested[k].issue) =>
                /\ Rated(final[c][i])
                /\ RankLMH(final[c][i]) >= RankLMH(Ingested[k].issue)
                /\ Origin(final[c][i]) \in Group(c, i)

\* A low static record is displaced by a high llm record of the same key, and
\* a later medium llm record does not displace that one.
C1_Witness ==
    /\ DedupReturned
    /\ \E c \in Categories : \E i \in 1..Len(final[c]) : \E a, b \in Group(c, i) :
          /\ a < Origin(final[c][i]) /\ Origin(final[c][i]) < b
          /\ Sev(Ingested[a].issue) = "low" /\ Ingested[a].source = "static"
          /\ Sev(final[c][i]) = "high" /\ final[c][i]["source"] = "llm"
          /\ Sev(Ingested[b].issue) = "medium"

\* C2: when the highest severity among the records of one key is carried both
\* by a record without a rule and by a record with a rule, the record kept has
\* a rule, whatever their sources and order.
C2_RuleWinsSeverityTie ==
    DedupReturned =>
        \A c \in Categories : \A i \in 1..Len(final[c]) :
            LET G   == Group(c, i)
                top == {k \in G : \A j \in G : RankLMH(Ingested[k].issue)
                                                 >= RankLMH(Ingested[j].issue)}
            IN  (/\ \A k \in G : Rated(Ingested[k].issue)
                 /\ \E k \in top : ~HasRule(Ingested[k].issue)
                 /\ \E k \in top : HasRule(Ingested[k].issue))
                => /\ HasRule(final[c][i])
                   /\ Origin(final[c][i]) \in top

\* Two records of one key and one severity, the first (static) without a rule,
\* the second (llm) with one: the second is kept.
C2_Witness ==
    /\ DedupReturned
    /\ \E c \in Categories : \E i \in 1..Len(final[c]) : \E a, b \in Group(c, i) :
          /\ a < b
          /\ Ingested[a].source = "static" /\ Ingested[b].source = "llm"
          /\ Sev(Ingested[a].issue) = Sev(Ingested[b].issue)
          /\ ~HasRule(Ingested[a].issue) /\ HasRule(Ingested[b].issue)
          /\ Origin(final[c][i]) = b

\* C3: of the records of one key, the survivor is the earliest-ingested one
\* among those maximal in (severity rank, has-rule); static records being
\* ingested first, a static record is kept over an llm record of the same key,
\* severity and rule status.
C3_EarliestMaximalKept ==
    DedupReturned =>
        \A c \in Categories : \A i \in 1..Len(final[c]) :
            LET G       == Group(c, i)
                maximal == {k \in G : \A j \in G : AtLeast(Ingested[k].issue, Ingested[j].issue)}
                kept    == Origin(final[c][i])
            IN  (\A k \in G : Rated(Ingested[k].issue))
                => /\ kept \in maximal
                   /\ \A k \in maximal : kept <= k
                   /\ \A k \in G :
                         (/\ Ingested[kept].source = "llm"
                          /\ Ingested[k].source = "static")
                         => ~AtLeast(Ingested[k].issue, Ingested[kept].issue)

\* Three records of one key: the first is lower, the second and the third are
\* equal in severity and rule status, static and llm: the second is kept.
C3_Witness ==
    /\ DedupReturned
    /\ \E c \in Categories : \E i \in 1..Len(final[c]) : \E a, b, d \in Group(c, i) :
          /\ a < b /\ b < d
          /\ ~AtLeast(Ingested[a].issue, Ingested[b].issue)
          /\ AtLeast(Ingested[d].issue, Ingested[b].issue)
          /\ AtLeast(Ingested[b].issue, Ingested[d].issue)
          /\ Ingested[b].source = "static" /\ Ingested[d].source = "llm"
          /\ Origin(final[c][i]) = b

\* C4: the output holds at most one record per (file, category, line_start,
\* line_end).
C4_OneRecordPerKey ==
    DedupReturned =>
        \A c \in Categories : \A i, j \in 1..Len(final[c]) :
            _normalize_issue(final[c][i]) = _normalize_issue(final[c][j]) => i = j

\* Three issues of one category on two keys leave two records.
C4_Witness ==
    /\ DedupReturned
    /\ \E c \in Categories : \E i \in 1..Len(final[c]) :
          Cardinality(Group(c, i)) >= 2 /\ Len(final[c]) >= 2

\* C5: deduplication removes a record only when a record of the same category
\* and key survives: an issue whose key no other issue of its category has is
\* in the output bucket of its category; every output record is an issue of its
\* own category, so different categories never merge; every issue of severity
\* low, medium or high has an output record of its category and key that ranks
\* at least as high.
C5_NothingDeletedOutright ==
    DedupReturned =>
        /\ \A k \in DOMAIN Ingested :
              LET c    == Ingested[k].category
                  mine == {i \in 1..Len(final[c]) : k \in Group(c, i)}
              IN  /\ Cardinality(mine) = 1
                  /\ \A i \in mine :
                        /\ Group(c, i) = {k} => Origin(final[c][i]) = k
                        /\ Rated(Ingested[k].issue) =>
                              /\ Rated(final[c][i])
                              /\ RankLMH(final[c][i]) >= RankLMH(Ingested[k].issue)
        /\ \A c \in Categories : \A i \in 1..Len(final[c]) :
              /\ \E k \in DOMAIN Ingested :
                    \A f \in DOMAIN Ingested[k].issue :
                        f \in DOMAIN final[c][i] /\ final[c][i][f] = Ingested[k].issue[f]
              /\ Ingested[Origin(final[c][i])].category = c

\* Two issues on one line in two categories, both in the output, each in its
\* own category.
C5_Witness ==
    /\ DedupReturned
    /\ \E c1, c2 \in Categories :
          /\ c1 # c2
          /\ Len(final[c1]) = 1 /\ Len(final[c2]) = 1
          /\ _normalize_issue(final[c1][1]) = _normalize_issue(final[c2][1])
          /\ Group(c1, 1) = {Origin(final[c1][1])}
          /\ Group(c2, 1) = {Origin(final[c2][1])}

\* The issue has no location: no line or a null line, no line_start, no line_end
Locationless(issue) ==
    /\ "line" \in DOMAIN issue => issue["line"] = None
    /\ "line_start" \notin DOMAIN issue
    /\ "line_end" \notin DOMAIN issue

\* C6: an issue that carries only `line` gets line_start = line_end = line; an
\* issue without a location (line absent or null) gets (0, 0); so when a
\* category holds issues without a location, exactly one of them survives.
C6_LocationlessShareOneSlot ==
    DedupReturned =>
        /\ \A k \in DOMAIN Ingested :
              LET issue == Ingested[k].issue
              IN  IF Locationless(issue)
                  THEN _normalize_issue(issue) = <<0, 0>>
                  ELSE _normalize_issue(issue) = <<issue["line"], issue["line"]>>
        /\ \A c \in Categories :
              (\E k \in DOMAIN Ingested :
                    Ingested[k].category = c /\ Locationless(Ingested[k].issue))
              => Cardinality({i \in 1..Len(final[c]) : Locationless(final[c][i])}) = 1

-----------------------------------------------------------------------------
(* Ranker *)

\* rank_reviews has been called (it returned, or it raised)
RankCalled == DOMAIN final = Categories /\ pc \in {"ranked", "raised"}

\* The weights of the ranker's contract; confidence and reach in hundredths
WeightOf(severity) ==
    CASE severity = "critical" -> 4
      [] severity = "high" -> 3
      [] severity = "medium" -> 2
      [] severity = "low" -> 1

ConfidenceOf(source) == CASE source = "llm" -> 100 [] source = "static" -> 70

ReachOf(category) ==
    CASE category \in {"correctness", "security"} -> 150
      [] category = "complexity" -> 120
      [] category \in {"readability", "tests"} -> 100

\* C7: for a severity among low, medium, high, critical, a source among static,
\* llm and one of the five categories, the impact is severityWeight x
\* sourceConfidence x categoryReach to two decimals (in hundredths here); an
\* llm high correctness issue has 4.50, a static low readability issue 0.70.
C7_ImpactIsWeightConfidenceReach ==
    pc = "ranked" =>
        \A k \in 1..Len(ranked) :
            LET r == ranked[k]
            IN  /\ r["impact"] * 100 =
                      WeightOf(r["severity"]) * ConfidenceOf(r["source"]) * ReachOf(r["category"])
                /\ (r["source"] = "llm" /\ r["severity"] = "high"
                        /\ r["category"] = "correctness") => r["impact"] = 450
                /\ (r["source"] = "static" /\ r["severity"] = "low"
                        /\ r["category"] = "readability") => r["impact"] = 70

\* The two issues of the confidence-weighting scenario, ranked in one call.
C7_Witness ==
    /\ pc = "ranked"
    /\ Len(ranked) = 2
    /\ ranked[1]["source"] = "llm" /\ ranked[1]["severity"] = "high"
    /\ ranked[1]["category"] = "correctness" /\ ranked[1]["impact"] = 450
    /\ ranked[2]["source"] = "static" /\ ranked[2]["severity"] = "low"
    /\ ranked[2]["category"] = "readability" /\ ranked[2]["impact"] = 70

\* The output records of deduplicate_reviews in the order rank_reviews meets them
Encountered == Flatten(final)

\* The position in Encountered of the record a ranked record is a copy of
EncounterOf(r) ==
    CHOOSE e \in 1..Len(Encountered) :
        /\ Encountered[e].category = r["category"]
        /\ \A f \in DOMAIN Encountered[e].issue :
              f \in DOMAIN r /\ r[f] = Encountered[e].issue[f]

\* C8: on buckets whose records all have severity low, medium or high,
\* rank_reviews does not raise; its list has exactly one record per input
\* record, with the category of its bucket and an impact, and the impacts do
\* not increase along the list.
C8_RankTotalAndNonIncreasing ==
    (RankCalled /\ \A e \in 1..Len(Encountered) : Rated(Encountered[e].issue)) =>
        /\ pc = "ranked"
        /\ Len(ranked) = Len(Encountered)
        /\ \A e \in 1..Len(Encountered) :
              Cardinality({k \in 1..Len(ranked) :
                  /\ ranked[k]["category"] = Encountered[e].category
                  /\ "impact" \in DOMAIN ranked[k]
                  /\ DOMAIN ranked[k] = DOMAIN Encountered[e].issue \cup {"category", "impact"}
                  /\ \A f \in DOMAIN Encountered[e].issue :
                        ranked[k][f] = Encountered[e].issue[f]}) = 1
        /\ \A k \in 1..(Len(ranked) - 1) : ranked[k]["impact"] >= ranked[k + 1]["impact"]

\* Three records of three impacts are ranked, and the last met is ranked first.
C8_Witness ==
    /\ pc = "ranked"
    /\ Len(ranked) = 3
    /\ \A e \in 1..Len(Encountered) : Rated(Encountered[e].issue)
    /\ ranked[1]["impact"] > ranked[2]["impact"]
    /\ ranked[2]["impact"] > ranked[3]["impact"]
    /\ EncounterOf(ranked[1]) = 3

\* C9: records of equal impact keep their encounter order (bucket order, then
\* position in the bucket), and nothing but the impact reorders records.
C9_EqualImpactKeepsEncounterOrder ==
    pc = "ranked" =>
        \A k1, k2 \in 1..Len(ranked) :
            (k1 < k2 /\ ranked[k1]["impact"] = ranked[k2]["impact"])
            => EncounterOf(ranked[k1]) < EncounterOf(ranked[k2])

\* Two records of equal impact from two buckets follow a record of higher
\* impact that was met after them.
C9_Witness ==
    /\ pc = "ranked"
    /\ Len(ranked) = 3
    /\ ranked[1]["impact"] > ranked[2]["impact"]
    /\ ranked[2]["impact"] = ranked[3]["impact"]
    /\ ranked[2]["category"] # ranked[3]["category"]
    /\ EncounterOf(ranked[1]) = 3

\* C10: an output record carries the source of the buckets the winning record
\* came from, never that of a discarded record; a high llm record that
\* displaces a medium static record is ranked with confidence 1.0.
C10_SourceIsTheWinners ==
    /\ DedupReturned =>
          \A c \in Categories : \A i \in 1..Len(final[c]) :
              /\ "source" \in DOMAIN final[c][i]
              /\ final[c][i]["source"] = Ingested[Origin(final[c][i])].source
    /\ pc = "ranked" =>
          \A k \in 1..Len(ranked) :
              LET r == ranked[k]
              IN  (Ingested[Origin(r)].source = "llm" /\ r["severity"] = "high")
                  => r["impact"] * 100 = 3 * 100 * ReachOf(r["category"])

\* The severity-override scenario: static medium and llm high on one line of
\* correctness; the llm record is ranked, with impact 4.50.
C10_Witness ==
    /\ pc = "ranked"
    /\ Len(ranked) = 1
    /\ Cardinality(Group("correctness", 1)) = 2
    /\ \E a \in Group("correctness", 1) :
          Ingested[a].source = "static" /\ Sev(Ingested[a].issue) = "medium"
    /\ ranked[1]["source"] = "llm"
    /\ ranked[1]["severity"] = "high"
    /\ ranked[1]["impact"] = 450

-----------------------------------------------------------------------------
(* review_file_with_llm: backend/llm/reviewer.py *)

MAX_RETRIES == 3

\* seconds
INITIAL_BACKOFF == 1

MAX_FILE_BYTES == 50000

MAX_PROMPT_CHARS == 12000

\* ruleset=None
NoRuleset == "None"

\* The keys of RULESETS, each with the length of the ruleset_block that lines
\* 69-91 build from its name, its categories and its rules, as the prompt
\* holds it (with the line breaks that separate it from the instructions)
RulesetBlockChars ==
    ("pep8" :> 436) @@ ("owasp-top-10" :> 342) @@ ("react-hooks" :> 426)

\* `if ruleset`: neither None nor the empty string
Truthy(name) == name # NoRuleset /\ name # ""

\* line 63
UnknownRuleset(name) == Truthy(name) /\ name \notin DOMAIN RulesetBlockChars

\* len(file_content.encode("utf-8")) > MAX_FILE_BYTES, line 66
FileTooLarge(content) == content.bytes > MAX_FILE_BYTES

\* Length of the f-string of lines 93-127 around its fields: the instructions
\* and JSON_SCHEMA, after .strip() has taken the line break that follows
\* "File content:" when no content follows it
PromptTemplateChars == 1109

\* len("a.py"), the file_path of the calls
FilePathChars == 4

\* len(prompt), lines 93-129: .strip() drops the white space the content ends with
PromptLen(name, content) ==
    LET stripped == content.chars - content.trailing
        block    == IF Truthy(name) THEN RulesetBlockChars[name] ELSE 0
    IN  PromptTemplateChars + block + FilePathChars
          + (IF stripped > 0 THEN 1 + stripped ELSE 0)

\* The rules of the rulesets of RULESETS, by their ids (registry.py)
RULESETS ==
    ("pep8" :> <<"PEP8-E302", "PEP8-E501">>)
      @@ ("owasp-top-10" :> <<"A01", "A03">>)
      @@ ("react-hooks" :> <<"RH-01", "RH-02">>)

\* file_path of the calls
FilePath == "a.py"

\* Lines 69-91: ruleset_block, by the rules it lists and what it gives of
\* each; the empty string without ruleset
RulesetBlock(name) ==
    IF Truthy(name)
    THEN [i \in DOMAIN RULESETS[name] |->
             [id |-> RULESETS[name][i],
              gives |-> {"id", "description", "severity", "link"}]]
    ELSE <<>>

\* str.strip() at the end of the prompt: the white space the content ends
\* with goes
Strip(content) ==
    [chars |-> content.chars - content.trailing,
     bytes |-> content.bytes - content.trailing,
     trailing |-> 0]

\* The f-string of lines 93-127, by the fields it embeds between the fixed
\* text of the instructions, in order; an empty ruleset_block leaves nothing.
\* The parameter language is not among them.
Prompt(file_path, lang, content, name) ==
    (IF RulesetBlock(name) # <<>>
     THEN <<[field |-> "ruleset_block", value |-> RulesetBlock(name)]>>
     ELSE <<>>)
    \o <<[field |-> "JSON_SCHEMA", value |-> <<>>],
         [field |-> "file_path", value |-> file_path],
         [field |-> "file_content", value |-> Strip(content)]>>

\* A mutation of PromptTooLarge: the ceiling of the file is taken for the prompt's
PromptTooLargeAtFileCeiling(n) == n > MAX_FILE_BYTES

\* line 129
PromptTooLarge(n) == n > MAX_PROMPT_CHARS

\* The exceptions the except clauses of lines 151-157 catch
TransientErrors ==
    {"APITimeoutError", "RateLimitError", "APIConnectionError", "InternalServerError"}

\* except clauses that catch every exception of create
CaughtAll(e) == TRUE

\* The except clauses of lines 151-157 catch the exception and the loop goes on
Caught(e) == e \in TransientErrors

\* A mutation of Exhausted: one attempt more
ExhaustedLate(n) == n > MAX_RETRIES

\* line 159
Exhausted(n) == n >= MAX_RETRIES

\* A mutation of NextBackoff: the delay stays what it is
NextBackoffConstant(b) == b

\* line 163
NextBackoff(b) == b * 2

\* client.chat.completions.create(...), line 144, as the n-th call
Create(n) == [op |-> "create", arg |-> n]

\* time.sleep(backoff), line 162
Sleep(secs) == [op |-> "sleep", arg |-> secs]

-----------------------------------------------------------------------------
(* The text of a response, as a sequence of lexical pieces                 *)
(*                                                                         *)
(*   t            commentary without braces                                *)
(*   { } [ ]      themselves                                               *)
(*   s            a JSON scalar                                            *)
(*   file         the member "file": "a.py"                                *)
(*   note         a member with another key and a scalar value             *)
(*   reviews:     the key "reviews" and its colon; a value follows         *)
(*   five         the five category members, every issue with keys among   *)
(*                line, severity, message, rule                            *)
(*   four         as five, without the member "tests"                      *)
(*   six          as five, and a member "style"                            *)
(*   extra        as five, one issue with a key "confidence"               *)
(*   unrated      as five, one issue without the key severity              *)
(*   critical     as five, one issue of severity "critical"                *)
(* The commas between members and items are left out.                      *)

\* Pieces that are whole members of an object
MemberPieces == {"file", "note", "five", "four", "six", "extra", "unrated", "critical"}

RECURSIVE ParseValue(_, _), ParseMembers(_, _), ParseItems(_, _)

\* json.loads at piece i: the index after the value that starts there, 0 when
\* no value starts there
ParseValue(t, i) ==
    IF i > Len(t) THEN 0
    ELSE CASE t[i] = "s" -> i + 1
           [] t[i] = "{" -> ParseMembers(t, i + 1)
           [] t[i] = "[" -> ParseItems(t, i + 1)
           [] OTHER      -> 0

\* The members of an object up to its closing brace
ParseMembers(t, i) ==
    IF i > Len(t) THEN 0
    ELSE CASE t[i] = "}"          -> i + 1
           [] t[i] \in MemberPieces -> ParseMembers(t, i + 1)
           [] t[i] = "reviews:"   ->
                LET j == ParseValue(t, i + 1)
                IN  IF j = 0 THEN 0 ELSE ParseMembers(t, j)
           [] OTHER               -> 0

\* The items of an array up to its closing bracket
ParseItems(t, i) ==
    IF i > Len(t) THEN 0
    ELSE IF t[i] = "]" THEN i + 1
    ELSE LET j == ParseValue(t, i)
         IN  IF j = 0 THEN 0 ELSE ParseItems(t, j)

\* json.loads(text) returns: text is one JSON value and nothing else
JsonLoads(t) == ParseValue(t, 1) = Len(t) + 1

\* re.search(r"\{.*\}", raw_output, re.DOTALL).group(0), lines 167-172: from
\* the first opening brace to the last closing brace; <<>> when nothing matches
Span(raw) ==
    LET opens  == {i \in DOMAIN raw : raw[i] = "{"}
        closes == {i \in DOMAIN raw : raw[i] = "}"}
    IN  IF opens = {} THEN <<>>
        ELSE LET a == CHOOSE i \in opens : \A j \in opens : i <= j
                 after == {i \in closes : i > a}
             IN  IF after = {} THEN <<>>
                 ELSE SubSeq(raw, a, CHOOSE i \in after : \A j \in after : j <= i)

\* How many brackets are open at piece i
Depth(t, i) ==
    Cardinality({j \in 1..(i - 1) : t[j] \in {"{", "["}})
      - Cardinality({j \in 1..(i - 1) : t[j] \in {"}", "]"}})

\* `key in parsed` for an object: the piece is a member of the outermost braces
In(piece, object) ==
    \E i \in DOMAIN object : object[i] = piece /\ Depth(object, i) = 1

\* isinstance(parsed, dict), line 180
IsDict(value) == value # <<>> /\ value[1] = "{"

\* A mutation of LacksRequired: only an object without both keys is refused
LacksBothRequired(object) == ~In("file", object) /\ ~In("reviews:", object)

\* line 183
LacksRequired(object) == ~In("file", object) \/ ~In("reviews:", object)

\* Lines 165-186: the error the parsing raises, "" when it returns the object
ParseError(raw) ==
    LET json_text == Span(raw)
    IN  IF json_text = <<>> THEN "LLM returned invalid JSON"
        ELSE IF ~JsonLoads(json_text) THEN "LLM returned invalid JSON"
        ELSE IF ~IsDict(json_text) THEN "LLM response must be a JSON object"
        ELSE IF LacksRequired(json_text) THEN "Invalid schema returned by LLM"
        ELSE ""

-----------------------------------------------------------------------------
(* Inputs of review_file_with_llm *)

\* Most pieces of commentary before the reply of the reviewer
MaxLeading == 1

\* Most pieces of commentary after the reply of the reviewer
MaxTrailing == 2

\* ruleset: none, empty, the three of RULESETS, one that RULESETS lacks
RulesetArgs == {NoRuleset, "", "pep8", "owasp-top-10", "react-hooks", "pep9"}

\* Lengths of file_content in characters, around the ceilings: with file_path
\* "a.py" a prompt without ruleset holds 10886 characters of content at most,
\* one with ruleset pep8 holds 10450
ContentChars == {1, 10450, 10451, 10886, 10887, 12500, 12501, 50000, 50001}

\* Bytes of one character in UTF-8: ASCII, or outside the basic plane
CharBytes == {1, 4}

\* file_content of `chars` characters, the last `trailing` of them line breaks
MkContent(chars, width, trailing) ==
    [chars |-> chars, bytes |-> (chars - trailing) * width + trailing,
     trailing |-> trailing]

Contents ==
    {MkContent(0, 1, 0)}
      \cup {MkContent(n, w, tr) : n \in ContentChars, w \in CharBytes, tr \in {0, 1}}

\* A short ASCII file
PlainContent == MkContent(1, 1, 0)

\* The reply the prompt asks for
ValidReply == <<"{", "file", "reviews:", "{", "five", "}", "}">>

\* Replies of the reviewer: conforming, without a required key, with other
\* categories, with another issue key, without a severity, with reviews that
\* is no object, with another top-level key, not an object, cut off, no JSON
\* at all
Replies ==
    {ValidReply,
     <<"{", "file", "}">>,
     <<"{", "reviews:", "{", "five", "}", "}">>,
     <<"{", "}">>,
     <<"{", "file", "reviews:", "{", "four", "}", "}">>,
     <<"{", "file", "reviews:", "{", "six", "}", "}">>,
     <<"{", "file", "reviews:", "{", "extra", "}", "}">>,
     <<"{", "file", "reviews:", "{", "unrated", "}", "}">>,
     <<"{", "file", "reviews:", "[", "]", "}">>,
     <<"{", "file", "reviews:", "s", "}">>,
     <<"{", "file", "note", "reviews:", "{", "five", "}", "}">>,
     <<"[", "{", "file", "reviews:", "{", "five", "}", "}", "]">>,
     <<"[", "s", "]">>,
     <<"s">>,
     <<"{", "file", "reviews:", "{", "five", "}">>,
     <<"{", "file", "t", "}">>,
     <<>>}

\* Text around the reply: prose, which may hold braces
Commentary(n) == UNION {[1..k -> {"t", "{", "}"}] : k \in 0..n}

Raws ==
    {pre \o reply \o post :
        pre \in Commentary(MaxLeading), reply \in Replies, post \in Commentary(MaxTrailing)}

\* The responses a call may get after n failed attempts: for the short file
\* without ruleset any of Raws at once and any of Replies later, for the
\* other arguments the reply asked for and plain prose
RawsFor(name, content, n) ==
    IF name = NoRuleset /\ content = PlainContent
    THEN (IF n = 0 THEN Raws ELSE Replies)
    ELSE {ValidReply, <<"t">>}

\* What one network attempt ends in: a response, an exception of
\* TransientErrors, or another exception of the client library
OtherErrors == {"AuthenticationError"}

\* The exceptions a network attempt can end in
UpstreamErrors == TransientErrors \cup OtherErrors

\* No exception: create returned
NoException == "None"

\* The values of argument language that main.py calls the reviewer with
Languages == {"python", "javascript"}

-----------------------------------------------------------------------------
(* One call of review_file_with_llm *)

InitClient ==
    /\ PipelineIdle
    /\ BatchIdle
    /\ HeapIdle
    /\ language \in Languages
    /\ ruleset \in RulesetArgs
    /\ file_content \in Contents
    /\ prompt = <<>>
    /\ exception = NoException
    /\ attempt = 0
    /\ backoff = 0
    /\ events = <<>>
    /\ raw_output = <<>>
    /\ parsed = <<>>
    /\ cpc = "ruleset"
    /\ cerror = ""

\* `raise`: the call ends with an exception of this message
Raise(message) ==
    /\ cpc' = "raised"
    /\ cerror' = message

\* lines 63-64
CheckRuleset ==
    /\ cpc = "ruleset"
    /\ IF UnknownRuleset(ruleset)
       THEN Raise("Unknown ruleset")
       ELSE cpc' = "bytes" /\ UNCHANGED cerror
    /\ UNCHANGED <<language, ruleset, file_content, attempt, backoff, events, raw_output, parsed>>
    /\ UNCHANGED <<prompt, exception>>
    /\ UNCHANGED <<pipelineVars, batchVars, heapVars>>

\* lines 66-67
CheckFileBytes ==
    /\ cpc = "bytes"
    /\ IF FileTooLarge(file_content)
       THEN Raise("File too large for LLM review")
       ELSE cpc' = "prompt" /\ UNCHANGED cerror
    /\ UNCHANGED <<language, ruleset, file_content, attempt, backoff, events, raw_output, parsed>>
    /\ UNCHANGED <<prompt, exception>>
    /\ UNCHANGED <<pipelineVars, batchVars, heapVars>>

\* lines 69-138: the prompt is built and measured, the loop is set up
BuildPrompt ==
    /\ cpc = "prompt"
    /\ IF PromptTooLarge(PromptLen(ruleset, file_content))
       THEN /\ Raise("Prompt too large")
            /\ UNCHANGED <<attempt, backoff>>
       ELSE /\ cpc' = "request"
            /\ attempt' = 0
            /\ backoff' = INITIAL_BACKOFF
            /\ UNCHANGED cerror
    /\ UNCHANGED <<language, ruleset, file_content, events, raw_output, parsed>>
    /\ prompt' = Prompt(FilePath, language, file_content, ruleset)
    /\ UNCHANGED exception
    /\ UNCHANGED <<pipelineVars, batchVars, heapVars>>

\* The network attempts made so far
NetworkAttempts(ev) == Cardinality({i \in DOMAIN ev : ev[i].op = "create"})

\* One pass of the loop, lines 140-149: create returns a response
RequestSucceeds ==
    /\ cpc = "request"
    /\ \E raw \in RawsFor(ruleset, file_content, attempt) :
        /\ events' = Append(events, Create(NetworkAttempts(events) + 1))
        /\ raw_output' = raw
        /\ cpc' = "parse"
    /\ UNCHANGED <<language, ruleset, file_content, attempt, backoff, parsed, cerror>>
    /\ exception' = NoException
    /\ UNCHANGED prompt
    /\ UNCHANGED <<pipelineVars, batchVars, heapVars>>

\* One pass of the loop, lines 140-163: create raises an exception that the
\* except clauses catch
RequestFailsTransient ==
    /\ cpc = "request"
    /\ \E e \in UpstreamErrors :
        LET made == Append(events, Create(NetworkAttempts(events) + 1))
        IN  /\ Caught(e)
            /\ exception' = e
            /\ attempt' = attempt + 1
            /\ IF Exhausted(attempt + 1)
               THEN /\ Raise("LLM request failed after retries")
                    /\ events' = made
                    /\ UNCHANGED backoff
               ELSE /\ events' = Append(made, Sleep(backoff))
                    /\ backoff' = NextBackoff(backoff)
                    /\ UNCHANGED <<cpc, cerror>>
    /\ UNCHANGED <<language, ruleset, file_content, prompt, raw_output, parsed>>
    /\ UNCHANGED <<pipelineVars, batchVars, heapVars>>

\* One pass of the loop, lines 140-148: create raises an exception that no
\* except clause catches
RequestFailsOther ==
    /\ cpc = "request"
    /\ \E e \in UpstreamErrors :
        /\ ~Caught(e)
        /\ exception' = e
        /\ events' = Append(events, Create(NetworkAttempts(events) + 1))
        /\ Raise(e)
    /\ UNCHANGED <<language, ruleset, file_content, prompt, attempt, backoff, raw_output,
                   parsed>>
    /\ UNCHANGED <<pipelineVars, batchVars, heapVars>>

\* lines 165-186
ParseResponse ==
    /\ cpc = "parse"
    /\ IF ParseError(raw_output) # ""
       THEN /\ Raise(ParseError(raw_output))
            /\ UNCHANGED parsed
       ELSE /\ parsed' = Span(raw_output)
            /\ cpc' = "returned"
            /\ UNCHANGED cerror
    /\ UNCHANGED <<language, ruleset, file_content, attempt, backoff, events, raw_output>>
    /\ UNCHANGED <<prompt, exception>>
    /\ UNCHANGED <<pipelineVars, batchVars, heapVars>>

NextClient ==
    \/ CheckRuleset
    \/ CheckFileBytes
    \/ BuildPrompt
    \/ RequestSucceeds
    \/ RequestFailsTransient
    \/ RequestFailsOther
    \/ ParseResponse

SpecClient == InitClient /\ [][NextClient]_vars

\* The call is not held up: whatever it can do next it does
FairSpecClient == SpecClient /\ WF_vars(NextClient)

-----------------------------------------------------------------------------
(* Claims about review_file_with_llm *)

\* The call has ended
ClientDone == cpc \in {"returned", "raised"}

\* The events of the log that are network attempts, and those that are sleeps
IsCreate(e) == e.op = "create"

IsSleep(e) == e.op = "sleep"

\* C11: every call of review_file_with_llm ends, and never after more than
\* three network attempts; once three attempts have failed with a transient
\* error the call has raised 'LLM request failed after retries', three
\* attempts were made, and nothing happens after the raise: no fourth attempt
\* and no second error.
C11_EndsWithinThreeAttempts ==
    /\ [](NetworkAttempts(events) <= 3)
    /\ [](attempt >= 3 =>
            /\ cpc = "raised"
            /\ cerror = "LLM request failed after retries"
            /\ NetworkAttempts(events) = 3)
    /\ [][cpc # "raised"]_vars
    /\ <>ClientDone

\* Three transient failures in a row have ended the call
C11_Witness ==
    /\ cpc = "raised"
    /\ cerror = "LLM request failed after retries"
    /\ attempt = 3
    /\ NetworkAttempts(events) = 3

\* C12: the first event of a call is a network attempt; the second attempt
\* directly follows one sleep of 1 second and the third one sleep of 2
\* seconds, each sleep directly following the attempt before; and the log
\* ends with a sleep only while the loop is about to try again, so no sleep
\* follows the attempt that got a response or the failure that ended the call.
C12_BackoffOneThenTwoSeconds ==
    /\ \A i \in DOMAIN events :
        /\ (i = 1) => IsCreate(events[i])
        /\ IsCreate(events[i]) /\ i > 1 =>
              /\ events[i - 1] = Sleep(IF events[i].arg = 2 THEN 1 ELSE 2)
              /\ events[i].arg \in {2, 3}
        /\ IsSleep(events[i]) => IsCreate(events[i - 1])
    /\ (events # <<>> /\ IsSleep(events[Len(events)])) => cpc = "request"

\* A third attempt got a response after sleeps of 1 and 2 seconds
C12_Witness ==
    /\ events = <<Create(1), Sleep(1), Create(2), Sleep(2), Create(3)>>
    /\ cpc = "returned"

\* A precondition of the call fails: the ruleset is given and RULESETS lacks
\* it, the content is over 50,000 bytes, or the prompt is over 12,000 characters
PreconditionFails ==
    \/ ruleset \notin {NoRuleset, ""} /\ ruleset \notin {"pep8", "owasp-top-10", "react-hooks"}
    \/ file_content.bytes > 50000
    \/ PromptLen(ruleset, file_content) > 12000

\* C13: a call whose precondition fails makes no network attempt and no
\* sleep: it never reaches the request loop, and when it has ended it has
\* raised the error of a precondition.
C13_FailedPreconditionMakesNoAttempt ==
    (cpc # "idle" /\ PreconditionFails) =>
        /\ events = <<>>
        /\ cpc \in {"ruleset", "bytes", "prompt", "raised"}
        /\ cpc = "raised" =>
              cerror \in {"Unknown ruleset", "File too large for LLM review",
                          "Prompt too large"}

\* A file under the byte ceiling whose prompt is too long was refused
C13_Witness ==
    /\ cpc = "raised"
    /\ cerror = "Prompt too large"
    /\ file_content.bytes <= 50000
    /\ events = <<>>

\* The errors that say the output of the reviewer is invalid
InvalidOutputErrors ==
    {"LLM returned invalid JSON", "LLM response must be a JSON object",
     "Invalid schema returned by LLM"}

\* No part of the text is a JSON object
NoJsonObject(raw) ==
    \A i, j \in DOMAIN raw : ~(raw[i] = "{" /\ JsonLoads(SubSeq(raw, i, j)))

\* The text from its first to its last brace is a JSON object without the
\* key file or without the key reviews
ObjectLacksKey(raw) ==
    /\ JsonLoads(Span(raw))
    /\ \/ \A i \in DOMAIN Span(raw) : ~(Span(raw)[i] = "file" /\ Depth(Span(raw), i) = 1)
       \/ \A i \in DOMAIN Span(raw) : ~(Span(raw)[i] = "reviews:" /\ Depth(Span(raw), i) = 1)

\* C14: the step that follows a response without a JSON object, or with an
\* object that lacks file or reviews, raises an invalid-output error and
\* makes no network attempt and no sleep; and no step follows a raise,
\* whatever the number of attempts left.
C14_InvalidOutputIsNotRetried ==
    /\ [][(cpc = "parse" /\ (NoJsonObject(raw_output) \/ ObjectLacksKey(raw_output))) =>
            /\ cpc' = "raised"
            /\ cerror' \in InvalidOutputErrors
            /\ events' = events]_vars
    /\ [][cpc # "raised"]_vars

\* The second attempt got an object without a required key: the call raised
\* with one attempt unused
C14_Witness ==
    /\ cpc = "raised"
    /\ cerror = "Invalid schema returned by LLM"
    /\ ObjectLacksKey(raw_output)
    /\ events = <<Create(1), Sleep(1), Create(2)>>

\* The text is prose without braces, then the reply asked for, then prose
\* that may hold braces
Wrapped(raw) ==
    \E pre \in {<<>>, <<"t">>}, post \in Commentary(MaxTrailing) :
        raw = pre \o ValidReply \o post

\* C15: for a response that is commentary, one valid JSON object with file and
\* reviews, and trailing commentary with or without braces, the call returns
\* that object.
C15_FirstBalancedSpanParsed ==
    (ClientDone /\ Wrapped(raw_output)) =>
        /\ cpc = "returned"
        /\ parsed = ValidReply

\* The value of reviews in the object is an object of the five categories
\* whose issues have keys among line, severity, message, rule
ReviewsConform(object) ==
    \E i \in DOMAIN object :
        /\ object[i] = "reviews:"
        /\ Depth(object, i) = 1
        /\ i + 3 <= Len(object)
        /\ SubSeq(object, i + 1, i + 3) = <<"{", "five", "}">>

\* The response deviates from the output contract: it is a JSON value that
\* is no object, or the reviews of its object do not conform
Deviates(raw, object) ==
    \/ JsonLoads(raw) /\ raw[1] # "{"
    \/ ~ReviewsConform(object)

\* C16: a call never returns the object of a response that deviates from the
\* output contract (a top level that is no object, reviews that is no object
\* of exactly the five categories, an issue with a key outside line,
\* severity, message, rule).
C16_DeviationIsNeverReturned ==
    cpc = "returned" => ~Deviates(raw_output, parsed)

-----------------------------------------------------------------------------
(* Claims about the prompt and the retried failures: C26, C27 *)

\* The fields of the prompt of the given name
FieldsNamed(name) == {i \in DOMAIN prompt : prompt[i].field = name}

\* The ids of the rules a ruleset_block lists
ListedRules(block) == {block[i].id : i \in DOMAIN block}

\* C26: once the prompt is assembled it embeds the file path, the language
\* tag and the whole file content; with an active ruleset it holds one block
\* that lists the rules of that ruleset and no other rule, each with id,
\* description, severity and link, and without ruleset it holds no such block.
C26_PromptEmbedsItsArguments ==
    prompt # <<>> =>
        /\ \E i \in FieldsNamed("file_path") : prompt[i].value = FilePath
        /\ \E i \in FieldsNamed("language") : prompt[i].value = language
        /\ \E i \in FieldsNamed("file_content") : prompt[i].value = file_content
        /\ Truthy(ruleset) =>
              /\ Cardinality(FieldsNamed("ruleset_block")) = 1
              /\ \A i \in FieldsNamed("ruleset_block") :
                    /\ ListedRules(prompt[i].value)
                       = {RULESETS[ruleset][k] : k \in DOMAIN RULESETS[ruleset]}
                    /\ \A k \in DOMAIN prompt[i].value :
                          prompt[i].value[k].gives = {"id", "description", "severity", "link"}
        /\ ~Truthy(ruleset) => FieldsNamed("ruleset_block") = {}

\* C27: a network attempt that raised an exception other than a timeout, a
\* rate limit, a connection error or a 5xx ended the call with that
\* exception: the attempt is the last event of the call, no sleep and no
\* attempt follows it; and a sleep is only ever made after an attempt that
\* raised one of the four.
C27_OnlyTransientFailuresAreRetried ==
    /\ (exception \in UpstreamErrors \ TransientErrors) =>
          /\ cpc = "raised"
          /\ cerror = exception
          /\ events # <<>>
          /\ IsCreate(events[Len(events)])
    /\ (events # <<>> /\ IsSleep(events[Len(events)])) => exception \in TransientErrors

\* The second attempt, made after a transient failure and a sleep, raised
\* another exception, and the call ended with it
C27_Witness ==
    /\ exception \in UpstreamErrors \ TransientErrors
    /\ cpc = "raised"
    /\ NetworkAttempts(events) = 2
    /\ Cardinality({i \in DOMAIN events : IsSleep(events[i])}) = 1

-----------------------------------------------------------------------------
(* POST /review: review_files of backend/main.py, per file                 *)
(* run_static_analysis, run_llm_review, deduplicate_reviews, rank_reviews  *)

\* Optional[str] = None of FileReviewResult.error
NoError == "None"

\* The five empty buckets of lines 157-163 and 189-195
EmptyBuckets == [c \in Categories |-> <<>>]

\* What review_file_with_llm does for one file, as a function of its
\* arguments and of what the network does: `upstream` is "response", or the
\* exception every attempt ends in
review_file_with_llm(name, content, upstream, raw) ==
    LET raised(message) == [raised |-> TRUE, error |-> message, value |-> <<>>]
    IN  IF UnknownRuleset(name) THEN raised("Unknown ruleset")
        ELSE IF FileTooLarge(content) THEN raised("File too large for LLM review")
        ELSE IF PromptTooLarge(PromptLen(name, content)) THEN raised("Prompt too large")
        ELSE IF upstream \in TransientErrors
             THEN raised("LLM request failed after retries")
        ELSE IF upstream \in OtherErrors THEN raised(upstream)
        ELSE IF ParseError(raw) # "" THEN raised(ParseError(raw))
        ELSE [raised |-> FALSE, error |-> "", value |-> Span(raw)]

\* An issue object of the reviewer
LlmIssue(line, severity, message) ==
    [line |-> line, severity |-> severity, message |-> message, rule |-> NoRule]

\* The lists of the categories that a piece of category members holds
PieceBuckets(piece) ==
    LET bug  == LlmIssue(1, "high", "bug")
        name == LlmIssue(2, "medium", "name")
        first == CASE piece = "extra"    -> ("confidence" :> 1) @@ bug
                   [] piece = "unrated"  -> [line |-> 1, message |-> "bug", rule |-> NoRule]
                   [] piece = "critical" -> LlmIssue(1, "critical", "bug")
                   [] OTHER              -> bug
    IN  IF piece \in {"five", "four", "six", "extra", "unrated", "critical"}
        THEN [EmptyBuckets EXCEPT !["correctness"] = <<first>>,
                                  !["readability"] = <<name>>]
        ELSE EmptyBuckets

\* issue["file"] = file_path, for every issue of a list
WithFile(issues, file_path) ==
    [i \in DOMAIN issues |-> ("file" :> file_path) @@ issues[i]]

\* Lines 208-213 on the object review_file_with_llm returned: the lists of the
\* five categories of result["reviews"]; a list holds no category, and `in`
\* on a number raises TypeError, which line 215 catches
ReviewsOf(object, file_path) ==
    LET i == CHOOSE k \in DOMAIN object : object[k] = "reviews:" /\ Depth(object, k) = 1
    IN  IF object[i + 1] = "{"
        THEN [c \in Categories |-> WithFile(PieceBuckets(object[i + 2])[c], file_path)]
        ELSE EmptyBuckets

\* A mutation of run_llm_review: an exception of the reviewer is not caught
RunLlmReviewUncaught(f, name) ==
    LET result == review_file_with_llm(name, f.content, f.upstream, f.raw)
    IN  IF result.raised THEN [ok |-> FALSE, reviews |-> EmptyBuckets]
        ELSE [ok |-> TRUE, reviews |-> ReviewsOf(result.value, f.name)]

\* run_llm_review, lines 187-218: ok is whether it returns, reviews what it returns
run_llm_review(f, name) ==
    LET result == review_file_with_llm(name, f.content, f.upstream, f.raw)
    IN  IF result.raised THEN [ok |-> TRUE, reviews |-> EmptyBuckets]
        ELSE [ok |-> TRUE, reviews |-> ReviewsOf(result.value, f.name)]

\* An issue of the static analysers, normalized (python_static.py:98-120)
StaticIssue(line, message, type) ==
    [line |-> line, severity |-> "medium", message |-> message, type |-> type]

\* run_static_analysis, lines 155-184: an exception of the analyser leaves the
\* five buckets empty
run_static_analysis(f) ==
    IF f.static # "issues" THEN EmptyBuckets
    ELSE CASE f.language = "python" ->
                [EmptyBuckets EXCEPT
                    !["complexity"]  = WithFile(<<StaticIssue(3, "cc", "complexity")>>, f.name),
                    !["readability"] = WithFile(<<StaticIssue(2, "E501", "syntax"),
                                                  StaticIssue(4, "W291", "syntax")>>, f.name)]
           [] f.language = "javascript" ->
                [EmptyBuckets EXCEPT
                    !["readability"] = WithFile(<<StaticIssue(2, "no-undef", "lint")>>, f.name)]
           [] OTHER -> EmptyBuckets

\* ingest(source_reviews, source) from entry k on: every iteration of its loops
RECURSIVE IngestAll(_, _, _, _, _)
IngestAll(m, f, entries, k, source) ==
    IF k > Len(entries) THEN [ok |-> TRUE, merged |-> m]
    ELSE LET r == IngestIssue(m, f, entries[k].category, entries[k].issue, source)
         IN  IF r.ok THEN IngestAll(r.merged, f, entries, k + 1, source) ELSE r

\* deduplicate_reviews, deduplicator.py:32-85: ok is whether it returns
deduplicate_reviews(f, static, llm) ==
    LET a == IngestAll(EmptyBuckets, f, Flatten(static), 1, "static")
        b == IF a.ok THEN IngestAll(a.merged, f, Flatten(llm), 1, "llm") ELSE a
    IN  [ok |-> b.ok, final |-> Values(b.merged)]

\* A mutation of Extend: the issues of a file go in front of the earlier ones
ExtendInFront(list, more) == more \o list

\* list.extend, line 286
Extend(list, more) == list \o more

\* FileReviewResult(file=..., issues=..., error=...)
FileReviewResult(file_path, issues, err) ==
    [file |-> file_path, issues |-> issues, error |-> err]

\* A count without the test of the severity
CountSeverityUnfiltered(issues, severity) == Len(issues)

\* len([i for i in all_ranked_issues if i.get("severity") == severity])
CountSeverity(issues, severity) ==
    Cardinality({i \in DOMAIN issues : Get(issues[i], "severity", NoSeverity) = severity})

\* lines 292-299
Summary(issues, results, files) ==
    [total_issues      |-> Len(issues),
     high_severity     |-> CountSeverity(issues, "high"),
     medium_severity   |-> CountSeverity(issues, "medium"),
     low_severity      |-> CountSeverity(issues, "low"),
     files_reviewed    |-> Len(files),
     files_with_issues |-> Cardinality({i \in DOMAIN results : results[i].issues # <<>>})]

-----------------------------------------------------------------------------
(* Inputs of review_files *)

\* Most files in one request
MaxFiles == 2

\* get_language_for_file returns None: no language has the extension
NoLanguage == "None"

\* The text of the responses the reviewer gives for the files of a request
BatchRaws ==
    {ValidReply,
     <<"{", "file", "reviews:", "{", "four", "}", "}">>,
     <<"{", "file", "reviews:", "{", "extra", "}", "}">>,
     <<"{", "file", "reviews:", "{", "unrated", "}", "}">>,
     <<"{", "file", "reviews:", "{", "critical", "}", "}">>,
     <<"[", "{", "file", "reviews:", "{", "five", "}", "}", "]">>,
     <<"{", "file", "reviews:", "s", "}">>,
     <<"{", "file", "}">>,
     ValidReply \o <<"t", "}">>,
     <<"t">>}

\* A file of a request, but for its name: whether it exists under temp_dir,
\* the language of its extension, what its static analysis does ("issues",
\* "none", "raises"), its content, what the network does, the text of the response
File(exists, lang, static, content, upstream, raw) ==
    [exists |-> exists, language |-> lang, static |-> static,
     content |-> content, upstream |-> upstream, raw |-> raw]

\* Files of a language the reviewer is called for
Reviewed ==
    {File(TRUE, "python", st, PlainContent, up, raw) :
        st \in {"issues", "none", "raises"},
        up \in {"response", "APITimeoutError"},
        raw \in {ValidReply, <<"{", "file", "reviews:", "{", "unrated", "}", "}">>}}
      \cup {File(TRUE, "python", "issues", PlainContent, "response", raw) : raw \in BatchRaws}
      \cup {File(TRUE, "python", "issues", PlainContent, "AuthenticationError", ValidReply),
            File(TRUE, "python", "issues", MkContent(50001, 1, 0), "response", ValidReply),
            File(TRUE, "python", "issues", MkContent(12500, 1, 0), "response", ValidReply),
            File(TRUE, "javascript", "issues", PlainContent, "response", ValidReply)}

\* Files the reviewer is not called for: of another language, of none, missing
NotReviewed ==
    {File(TRUE, "css", "none", PlainContent, "response", ValidReply),
     File(TRUE, NoLanguage, "none", PlainContent, "response", ValidReply),
     File(FALSE, "python", "none", PlainContent, "response", ValidReply)}

Files == Reviewed \cup NotReviewed

\* The extension of the files of a language
Ext(lang) ==
    CASE lang = "python"     -> ".py"
      [] lang = "javascript" -> ".js"
      [] lang = "css"        -> ".css"
      [] OTHER               -> ".txt"

\* The i-th file of a request: its path under temp_dir names it
Named(f, i) == ("name" :> ("f" \o ToString(i) \o Ext(f.language))) @@ f

\* A short Python file that is analysed and reviewed without a failure
PlainFile == File(TRUE, "python", "issues", PlainContent, "response", ValidReply)

\* Requests: any files, without ruleset; one file with a ruleset that
\* RULESETS has or lacks, under a temp_dir that exists or not
Requests ==
    {[ruleset |-> NoRuleset, temp_dir |-> TRUE,
      files |-> [i \in DOMAIN fs |-> Named(fs[i], i)]] :
        fs \in UNION {[1..k -> Files] : k \in 0..MaxFiles}}
      \cup {[ruleset |-> rs, temp_dir |-> td, files |-> <<Named(PlainFile, 1)>>] :
              rs \in {NoRuleset, "pep8", "pep9"}, td \in BOOLEAN}

-----------------------------------------------------------------------------
(* One POST /review request *)

InitBatch ==
    /\ PipelineIdle
    /\ ClientIdle
    /\ HeapIdle
    /\ request \in Requests
    /\ file_results = <<>>
    /\ all_ranked_issues = <<>>
    /\ index = 0
    /\ bpc = "validate"
    /\ response = <<>>

\* lines 228-238: HTTPException(400) for a ruleset RULESETS lacks and for a
\* temp_dir that does not exist
Validate ==
    /\ bpc = "validate"
    /\ bpc' = IF UnknownRuleset(request.ruleset) \/ ~request.temp_dir
              THEN "rejected" ELSE "files"
    /\ UNCHANGED <<request, file_results, all_ranked_issues, index, response>>
    /\ UNCHANGED <<pipelineVars, clientVars, heapVars>>

\* The file the loop of line 240 handles next
Current == request.files[index + 1]

InLoop == bpc = "files" /\ index < Len(request.files)

\* lines 243-249
FileNotFound ==
    /\ InLoop
    /\ ~Current.exists
    /\ file_results' = Append(file_results,
            FileReviewResult(Current.name, <<>>, "File not found: " \o Current.name))
    /\ index' = index + 1
    /\ UNCHANGED <<request, all_ranked_issues, bpc, response>>
    /\ UNCHANGED <<pipelineVars, clientVars, heapVars>>

\* lines 251-258
UnsupportedType ==
    /\ InLoop
    /\ Current.exists
    /\ Current.language = NoLanguage
    /\ file_results' = Append(file_results,
            FileReviewResult(Current.name, <<>>, "Unsupported file type: " \o Current.name))
    /\ index' = index + 1
    /\ UNCHANGED <<request, all_ranked_issues, bpc, response>>
    /\ UNCHANGED <<pipelineVars, clientVars, heapVars>>

\* lines 260-286: the four steps of the pipeline for one file; an exception of
\* one of them ends the request (HTTP 500)
ReviewFile ==
    /\ InLoop
    /\ Current.exists
    /\ Current.language # NoLanguage
    /\ LET static_ == run_static_analysis(Current)
           llm     == IF Current.language \in {"python", "javascript"}
                      THEN run_llm_review(Current, request.ruleset)
                      ELSE [ok |-> TRUE, reviews |-> EmptyBuckets]
           deduped == deduplicate_reviews(Current.name, static_, llm.reviews)
       IN  IF ~llm.ok \/ ~deduped.ok \/ RankRaises(deduped.final)
           THEN /\ bpc' = "aborted"
                /\ UNCHANGED <<file_results, all_ranked_issues, index>>
           ELSE LET ranked_ == WithFile(rank_reviews(deduped.final), Current.name)
                IN  /\ file_results' = Append(file_results,
                            FileReviewResult(Current.name, ranked_, NoError))
                    /\ all_ranked_issues' = Extend(all_ranked_issues, ranked_)
                    /\ index' = index + 1
                    /\ UNCHANGED bpc
    /\ UNCHANGED <<request, response>>
    /\ UNCHANGED <<pipelineVars, clientVars, heapVars>>

\* lines 288-305
Respond ==
    /\ bpc = "files"
    /\ index = Len(request.files)
    /\ all_ranked_issues' = SortByImpactDesc(all_ranked_issues)
    /\ response' = [ranked_issues |-> all_ranked_issues',
                    file_results  |-> file_results,
                    summary       |-> Summary(all_ranked_issues', file_results,
                                              request.files)]
    /\ bpc' = "responded"
    /\ UNCHANGED <<request, file_results, index>>
    /\ UNCHANGED <<pipelineVars, clientVars, heapVars>>

NextBatch == Validate \/ FileNotFound \/ UnsupportedType \/ ReviewFile \/ Respond

SpecBatch == InitBatch /\ [][NextBatch]_vars

-----------------------------------------------------------------------------
(* Claims about review_files *)

\* The request was answered with a ReviewResponse
Responded == bpc = "responded"

\* run_llm_review is called for the file
ReviewerCalled(f) == f.exists /\ f.language \in {"python", "javascript"}

\* What review_file_with_llm does for the file
ReviewerResult(f) == review_file_with_llm(request.ruleset, f.content, f.upstream, f.raw)

\* The reviewer fails for the file: review_file_with_llm raises
ReviewerFails(f) == ReviewerCalled(f) /\ ReviewerResult(f).raised

\* The static analysis of the file fails: the analyser raises
StaticFails(f) == f.exists /\ f.language # NoLanguage /\ f.static = "raises"

\* The reviewer did not fail, and the object it returned holds an issue
\* without a severity
AcceptedUnrated(f) ==
    /\ ReviewerCalled(f)
    /\ ~ReviewerResult(f).raised
    /\ \E i \in DOMAIN ReviewerResult(f).value : ReviewerResult(f).value[i] = "unrated"

ReviewFails(f) == ~f.exists \/ f.language = NoLanguage \/ ReviewerFails(f)

\* C18: in a response, the entry of every file whose review failed has an
\* error message that is neither absent nor empty, and no issues.
C18_FailedFileCarriesError ==
    Responded =>
        \A i \in DOMAIN request.files :
            ReviewFails(request.files[i]) =>
                /\ response.file_results[i].error \notin {NoError, ""}
                /\ response.file_results[i].issues = <<>>

\* The reviewer answered the file with a text that violates the output
\* contract: no part of it is a JSON object, or its object lacks a key or
\* deviates from the schema
OutputViolatesContract(f) ==
    /\ ReviewerCalled(f)
    /\ f.upstream = "response"
    /\ ReviewerResult(f).error \notin
          {"Unknown ruleset", "File too large for LLM review", "Prompt too large"}
    /\ \/ NoJsonObject(f.raw)
       \/ JsonLoads(Span(f.raw))
            /\ (ObjectLacksKey(f.raw) \/ Deviates(f.raw, Span(f.raw)))

\* The issues of a list that the reviewer is the source of
FromReviewer(issues, file_path) ==
    {i \in DOMAIN issues : issues[i]["source"] = "llm" /\ issues[i]["file"] = file_path}

\* C19: in a response, no issue of the reviewer is reported for a file whose
\* reviewer output violates the output contract, neither in the issues of the
\* file nor in ranked_issues.
C19_InvalidOutputYieldsNoIssue ==
    Responded =>
        \A i \in DOMAIN request.files :
            OutputViolatesContract(request.files[i]) =>
                /\ FromReviewer(response.file_results[i].issues, request.files[i].name) = {}
                /\ FromReviewer(response.ranked_issues, request.files[i].name) = {}

\* The issue lists of the entries of file_results from entry i on, one after another
RECURSIVE ConcatIssues(_, _)
ConcatIssues(results, i) ==
    IF i > Len(results) THEN <<>>
    ELSE results[i].issues \o ConcatIssues(results, i + 1)

\* The places of an issue in a list
Places(list, issue) == {k \in DOMAIN list : list[k] = issue}

\* C20: ranked_issues of a response holds every issue of the per-file lists
\* exactly once and nothing else, its impacts never increase, and issues of
\* equal impact are in the order of the concatenation of the per-file lists:
\* by file in request order, then by their order in the list of the file.
C20_GlobalOrderIsStableResort ==
    Responded =>
        LET out == response.ranked_issues
            cat == ConcatIssues(response.file_results, 1)
        IN  /\ Len(out) = Len(cat)
            /\ \A k \in DOMAIN cat : Cardinality(Places(out, cat[k])) = 1
            /\ \A p \in 1..(Len(out) - 1) : out[p]["impact"] >= out[p + 1]["impact"]
            /\ \A p, q \in DOMAIN out :
                  (p < q /\ out[p]["impact"] = out[q]["impact"]) =>
                      \A a \in Places(cat, out[p]), b \in Places(cat, out[q]) : a < b

\* Two files with issues: the global list is not the concatenation, and two
\* issues of equal impact come from different files
C20_Witness ==
    /\ Responded
    /\ Len(request.files) = 2
    /\ response.ranked_issues # ConcatIssues(response.file_results, 1)
    /\ \E p, q \in DOMAIN response.ranked_issues :
          /\ p < q
          /\ response.ranked_issues[p]["impact"] = response.ranked_issues[q]["impact"]
          /\ response.ranked_issues[p]["file"] # response.ranked_issues[q]["file"]

-----------------------------------------------------------------------------
(* Claims about the steps of one file and the summary: C24, C25, C28 *)

\* The messages of the issues of a list
Messages(issues) == {issues[i]["message"] : i \in DOMAIN issues}

\* The messages of the issues the reviewer returned for the file
ReviewerMessages(f) ==
    IF ~ReviewerCalled(f) \/ ReviewerResult(f).raised THEN {}
    ELSE UNION {Messages(ReviewsOf(ReviewerResult(f).value, f.name)[c]) : c \in Categories}

\* C24: the pass of the loop over a file whose static analysis raises does
\* not end the request: it adds the entry of the file without an error, and
\* the issues of that entry are the issues the reviewer returned for the
\* file, each with source "llm", and no others.
C24_StaticFailureLeavesReviewerIssues ==
    [][(InLoop /\ StaticFails(Current)) =>
          /\ bpc' = "files"
          /\ index' = index + 1
          /\ Len(file_results') = index + 1
          /\ LET entry == file_results'[index + 1]
             IN  /\ entry.file = Current.name
                 /\ entry.error = NoError
                 /\ \A i \in DOMAIN entry.issues : entry.issues[i]["source"] = "llm"
                 /\ Messages(entry.issues) = ReviewerMessages(Current)]_vars

\* The issues of a list whose severity is the given one
OfSeverity(issues, severity) ==
    {i \in DOMAIN issues : "severity" \in DOMAIN issues[i] /\ issues[i]["severity"] = severity}

\* The sum of the lengths of the issue lists of the entries from entry i on
RECURSIVE TotalLen(_, _)
TotalLen(results, i) ==
    IF i > Len(results) THEN 0 ELSE Len(results[i].issues) + TotalLen(results, i + 1)

\* C25: in every response total_issues is the length of ranked_issues and the
\* sum of the lengths of the per-file issue lists; high_severity,
\* medium_severity and low_severity are the numbers of issues of ranked_issues
\* with that severity; and the three add up to total_issues when every issue
\* has severity low, medium or high.
C25_SummaryCountsIssues ==
    Responded =>
        LET out == response.ranked_issues
            sum == response.summary
        IN  /\ sum.total_issues = Len(out)
            /\ sum.total_issues = TotalLen(response.file_results, 1)
            /\ sum.high_severity = Cardinality(OfSeverity(out, "high"))
            /\ sum.medium_severity = Cardinality(OfSeverity(out, "medium"))
            /\ sum.low_severity = Cardinality(OfSeverity(out, "low"))
            /\ (\A i \in DOMAIN out : Rated(out[i]))
                   => sum.high_severity + sum.medium_severity + sum.low_severity
                      = sum.total_issues

\* A response over two files with issues of severity high and medium
C25_Witness ==
    /\ Responded
    /\ Len(request.files) = 2
    /\ response.file_results[1].issues # <<>>
    /\ response.file_results[2].issues # <<>>
    /\ response.summary.high_severity > 0
    /\ response.summary.medium_severity > 0
    /\ \A i \in DOMAIN response.ranked_issues : Rated(response.ranked_issues[i])

\* review_file_with_llm accepted the reviewer's output for the file: it
\* returned the object
Accepted(f) == ReviewerCalled(f) /\ ~ReviewerResult(f).raised

\* C28: the pass of the loop over a file whose reviewer output was accepted
\* raises no exception, whatever the issues of the output hold: it adds the
\* entry of the file and goes on, and the request is not ended.
C28_AcceptedOutputNeverRaises ==
    [][(InLoop /\ Accepted(Current)) =>
          /\ bpc' = "files"
          /\ index' = index + 1
          /\ Len(file_results') = index + 1
          /\ file_results'[index + 1].file = Current.name]_vars

-----------------------------------------------------------------------------
(* Invocations over a heap.  An issue is a dict object: the buckets, the     *)
(* dict `merged` and the list `ranked` hold references to objects, and       *)
(* dict.copy() allocates.  An address is <<owner, serial>>: owner 0 is the   *)
(* caller, who allocates the issues of the arguments, and owner p is         *)
(* invocation p.  Two invocations run, their loop iterations interleaved.    *)

\* Most issues in the arguments of one invocation
MaxShared == 2

Procs == {1, 2}

\* The frame that holds `merged` of every invocation: one module-level dict
MergedFrameShared(p) == 1

\* deduplicator.py:44: `merged` is a local of the call, one per invocation
MergedFrame(p) == p

\* The frame that holds `ranked` of every invocation: one module-level list
RankedFrameShared(p) == 1

\* ranking.py:31: `ranked` is a local of the call, one per invocation
RankedFrame(p) == p

\* The address the next allocation of owner p gets
NewAddress(h, p) == <<p, Cardinality({a \in DOMAIN h : a[1] = p}) + 1>>

\* An assignment in place of the copy: the name is bound to the object itself
CopyAlias(h, a, p) == [heap |-> h, ref |-> a]

\* issue.copy() (deduplicator.py:51, ranking.py:36): a new dict object with
\* the items of the object at a; the copy is shallow, the values are shared
Copy(h, a, p) == [heap |-> (NewAddress(h, p) :> h[a]) @@ h, ref |-> NewAddress(h, p)]

\* The values of a list of references
Deref(h, refs) == [i \in 1..Len(refs) |-> h[refs[i]]]

\* The values of a bucket dict of references
DerefBuckets(h, buckets) == [c \in Categories |-> Deref(h, buckets[c])]

\* ranked.sort(key=lambda x: x["impact"], reverse=True) on a list of references
SortRefs(h, refs) ==
    LET keyed  == [i \in 1..Len(refs) |-> [impact |-> h[refs[i]]["impact"], ref |-> refs[i]]]
        sorted == SortByImpactDesc(keyed)
    IN  [i \in 1..Len(sorted) |-> sorted[i].ref]

\* What one issue of the arguments is: one category, a line or none, a
\* severity the deduplicator ranks or none at all
SharedShapes ==
    {s \in [source : Sources, category : {"correctness"}, hasLine : BOOLEAN,
            line : LineVals \cup {None}, severity : {"low", "high", NoSeverity},
            rule : {NoRule}] :
        s.hasLine <=> s.line # None}

SharedCalls == UNION {ShapeSeqs(SharedShapes, n) : n \in 0..MaxShared}

\* The arguments of an invocation on another file: a weaker static issue and
\* a stronger reviewer issue at one location
OtherCall ==
    <<[source |-> "static", category |-> "correctness", hasLine |-> TRUE, line |-> 1,
       severity |-> "low", rule |-> NoRule],
      [source |-> "llm", category |-> "correctness", hasLine |-> TRUE, line |-> 1,
       severity |-> "high", rule |-> NoRule]>>

\* The caller's objects: issue i of the call is at <<0, base + i>>
CallerHeap(call, base) == [a \in {<<0, base + i>> : i \in DOMAIN call} |-> MkIssue(call[a[2] - base], a[2] - base)]

\* The bucket dict of references the caller passes for `source`
RefBucket(call, base, source, c) ==
    LET vals == Bucket(call, source, c)
    IN  [k \in 1..Len(vals) |-> <<0, base + vals[k]["message"]>>]

RefReviews(call, base, source) == [c \in Categories |-> RefBucket(call, base, source, c)]

\* An invocation before its first step.  `given` is the value of the
\* arguments at the call, kept to compare with.
Invocation(f, call, base) ==
    [file   |-> f,
     static |-> RefReviews(call, base, "static"),
     llm    |-> RefReviews(call, base, "llm"),
     given  |-> [static |-> Reviews(call, "static"), llm |-> Reviews(call, "llm")],
     pc     |-> "start",
     pos    |-> 1,
     final  |-> <<>>,
     result |-> <<>>]

\* Two invocations: the second one is given the very objects of the first
\* and the same file, or its own objects and another file
InitCalls ==
    /\ PipelineIdle
    /\ ClientIdle
    /\ BatchIdle
    /\ merged_dicts = [p \in Procs |-> [c \in Categories |-> <<>>]]
    /\ ranked_lists = [p \in Procs |-> <<>>]
    /\ \E call \in SharedCalls :
         \/ /\ heap = CallerHeap(call, 0)
            /\ invocations = [p \in Procs |-> Invocation("a.py", call, 0)]
         \/ /\ heap = CallerHeap(call, 0) @@ CallerHeap(OtherCall, Len(call))
            /\ invocations = (1 :> Invocation("a.py", call, 0))
                             @@ (2 :> Invocation("b.py", OtherCall, Len(call)))

\* deduplicator.py:44: merged = {} (the category keys come with setdefault)
CallDedup(p) ==
    /\ invocations[p].pc = "start"
    /\ merged_dicts' = [merged_dicts EXCEPT ![MergedFrame(p)] = [c \in Categories |-> <<>>]]
    /\ invocations' = [invocations EXCEPT ![p].pc = "static", ![p].pos = 1]
    /\ UNCHANGED <<heap, ranked_lists>>
    /\ UNCHANGED <<pipelineVars, clientVars, batchVars>>

\* merged[category][key] = issue on a dict of references: a key the dict
\* holds keeps its position
SetRef(bucket, key, ref) ==
    IF HasKey(bucket, key)
    THEN [bucket EXCEPT ![KeyIndex(bucket, key)].ref = ref]
    ELSE Append(bucket, [key |-> key, ref |-> ref])

\* One iteration of the inner loop of ingest (deduplicator.py:50-75)
IngestRef(p) ==
    LET inv     == invocations[p]
        source  == inv.pc
        entries == Flatten(inv[source])
    IN  /\ inv.pc \in {"static", "llm"}
        /\ inv.pos <= Len(entries)
        /\ LET category == entries[inv.pos].category
               copied   == Copy(heap, entries[inv.pos].issue, p)
               a        == copied.ref
               h        == [copied.heap EXCEPT ![a] = Stamp(@, source)]
               span     == _normalize_issue(h[a])
               key      == _issue_key(inv.file, category, span[1], span[2])
               bucket   == merged_dicts[MergedFrame(p)][category]
               store    == [merged_dicts EXCEPT ![MergedFrame(p)][category] =
                                SetRef(bucket, key, a)]
           IN  /\ heap' = h
               /\ IF ~HasKey(bucket, key)
                  THEN /\ merged_dicts' = store
                       /\ invocations' = [invocations EXCEPT ![p].pos = @ + 1]
                  ELSE LET existing == h[bucket[KeyIndex(bucket, key)].ref]
                       IN  IF "severity" \notin DOMAIN existing
                              \/ "severity" \notin DOMAIN h[a]
                           THEN /\ merged_dicts' = merged_dicts
                                /\ invocations' = [invocations EXCEPT ![p].pc = "raised"]
                           ELSE /\ merged_dicts' = IF Replaces(existing, h[a])
                                                   THEN store ELSE merged_dicts
                                /\ invocations' = [invocations EXCEPT ![p].pos = @ + 1]
        /\ UNCHANGED ranked_lists
        /\ UNCHANGED <<pipelineVars, clientVars, batchVars>>

\* deduplicator.py:77-78: ingest(static_reviews, ...) returns, ingest(llm_reviews, ...) starts
StartLlmRef(p) ==
    /\ invocations[p].pc = "static"
    /\ invocations[p].pos > Len(Flatten(invocations[p].static))
    /\ invocations' = [invocations EXCEPT ![p].pc = "llm", ![p].pos = 1]
    /\ UNCHANGED <<heap, merged_dicts, ranked_lists>>
    /\ UNCHANGED <<pipelineVars, clientVars, batchVars>>

\* deduplicator.py:81-85: final[category] = list(issue_map.values()), new
\* lists of the objects `merged` refers to
ReturnFinalRef(p) ==
    /\ invocations[p].pc = "llm"
    /\ invocations[p].pos > Len(Flatten(invocations[p].llm))
    /\ invocations' =
         [invocations EXCEPT
            ![p].pc = "deduped",
            ![p].final = [c \in Categories |->
                             [i \in 1..Len(merged_dicts[MergedFrame(p)][c]) |->
                                 merged_dicts[MergedFrame(p)][c][i].ref]]]
    /\ UNCHANGED <<heap, merged_dicts, ranked_lists>>
    /\ UNCHANGED <<pipelineVars, clientVars, batchVars>>

\* ranking.py:31: ranked = []
CallRank(p) ==
    /\ invocations[p].pc = "deduped"
    /\ ranked_lists' = [ranked_lists EXCEPT ![RankedFrame(p)] = <<>>]
    /\ invocations' = [invocations EXCEPT ![p].pc = "ranking", ![p].pos = 1]
    /\ UNCHANGED <<heap, merged_dicts>>
    /\ UNCHANGED <<pipelineVars, clientVars, batchVars>>

\* One iteration of the inner loop of rank_reviews (ranking.py:34-39)
ScoreRef(p) ==
    LET inv     == invocations[p]
        entries == Flatten(inv.final)
    IN  /\ inv.pc = "ranking"
        /\ inv.pos <= Len(entries)
        /\ LET category == entries[inv.pos].category
               issue    == heap[entries[inv.pos].issue]
               copied   == Copy(heap, entries[inv.pos].issue, p)
           IN  IF ImpactRaises(issue)
               THEN /\ invocations' = [invocations EXCEPT ![p].pc = "raised"]
                    /\ UNCHANGED <<heap, ranked_lists>>
               ELSE /\ heap' = [copied.heap EXCEPT ![copied.ref] =
                                   ("category" :> category)
                                   @@ ("impact" :> compute_impact(issue, category)) @@ @]
                    /\ ranked_lists' = [ranked_lists EXCEPT ![RankedFrame(p)] =
                                           Append(@, copied.ref)]
                    /\ invocations' = [invocations EXCEPT ![p].pos = @ + 1]
        /\ UNCHANGED merged_dicts
        /\ UNCHANGED <<pipelineVars, clientVars, batchVars>>

\* ranking.py:41-42: ranked.sort(...); return ranked
SortReturn(p) ==
    /\ invocations[p].pc = "ranking"
    /\ invocations[p].pos > Len(Flatten(invocations[p].final))
    /\ ranked_lists' = [ranked_lists EXCEPT ![RankedFrame(p)] = SortRefs(heap, @)]
    /\ invocations' = [invocations EXCEPT
                         ![p].pc = "returned",
                         ![p].result = SortRefs(heap, ranked_lists[RankedFrame(p)])]
    /\ UNCHANGED <<heap, merged_dicts>>
    /\ UNCHANGED <<pipelineVars, clientVars, batchVars>>

NextCalls ==
    \E p \in Procs :
        \/ CallDedup(p)
        \/ IngestRef(p)
        \/ StartLlmRef(p)
        \/ ReturnFinalRef(p)
        \/ CallRank(p)
        \/ ScoreRef(p)
        \/ SortReturn(p)

SpecCalls == InitCalls /\ [][NextCalls]_vars

-----------------------------------------------------------------------------
(* Claims on the pipeline as a function of its arguments: C21 - C23 *)

\* Invocation p has returned from rank_reviews or has raised
Finished(p) == invocations[p].pc \in {"returned", "raised"}

\* What the caller of invocation p observes: whether it returned, and the
\* records of the list it returned
Outcome(p) ==
    [pc |-> invocations[p].pc, result |-> Deref(heap, invocations[p].result)]

\* The two invocations were given the same file and the same bucket objects
SameArguments ==
    /\ invocations[1].file = invocations[2].file
    /\ invocations[1].static = invocations[2].static
    /\ invocations[1].llm = invocations[2].llm

\* What deduplicate_reviews then rank_reviews give on the arguments of
\* invocation p when nothing else runs
Alone(p) ==
    LET inv     == invocations[p]
        deduped == deduplicate_reviews(inv.file, inv.given.static, inv.given.llm)
    IN  IF ~deduped.ok \/ RankRaises(deduped.final)
        THEN [pc |-> "raised", result |-> <<>>]
        ELSE [pc |-> "returned", result |-> rank_reviews(deduped.final)]

\* The objects the caller allocated
CallerObjects == {a \in DOMAIN heap : a[1] = 0}

\* The objects a bucket dict of references refers to
RefsOf(buckets) ==
    UNION {{buckets[c][i] : i \in 1..Len(buckets[c])} : c \in Categories}

\* C21: two runs of deduplicate_reviews then rank_reviews on the same static
\* and llm bucket sets end alike: both raise, or both return lists with the
\* same records, the same fields and the same order.
C21_SameInputSameOutput ==
    (SameArguments /\ Finished(1) /\ Finished(2)) => Outcome(1) = Outcome(2)

\* Both runs on one pair of bucket sets returned two ranked records
C21_Witness ==
    /\ SameArguments
    /\ invocations[1].pc = "returned"
    /\ invocations[2].pc = "returned"
    /\ Len(invocations[1].result) = 2
    /\ Len(invocations[2].result) = 2

\* C22: deduplicate_reviews and rank_reviews leave the buckets they are given
\* and the records in them as they were at the call, and every record they
\* return is an object they allocated: the list rank_reviews returns shares
\* no record with the arguments nor with the dict deduplicate_reviews returned.
C22_InputsUnchangedOutputsFresh ==
    \A p \in Procs :
        LET inv == invocations[p]
        IN  /\ DerefBuckets(heap, inv.static) = inv.given.static
            /\ DerefBuckets(heap, inv.llm) = inv.given.llm
            /\ inv.final # <<>> => RefsOf(inv.final) \cap CallerObjects = {}
            /\ \A i \in 1..Len(inv.result) :
                   /\ inv.result[i] \notin CallerObjects
                   /\ inv.final # <<>> => inv.result[i] \notin RefsOf(inv.final)

\* An invocation returned a record that carries the three stamps, and the
\* record of the arguments it was copied from carries none
C22_Witness ==
    \E p \in Procs :
        /\ invocations[p].pc = "returned"
        /\ \E i \in 1..Len(invocations[p].result), a \in CallerObjects :
               /\ {"source", "category", "impact"} \subseteq DOMAIN heap[invocations[p].result[i]]
               /\ heap[invocations[p].result[i]]["message"] = heap[a]["message"]
               /\ DOMAIN heap[a] \cap {"source", "category", "impact"} = {}

\* C23: two invocations of the pipeline on different files, their steps
\* interleaved in any way, each end as the invocation does when run alone:
\* the same dict from deduplicate_reviews, the same list from rank_reviews,
\* or the same exception.
C23_InterleavingChangesNoResult ==
    invocations[1].file # invocations[2].file =>
        \A p \in Procs :
            /\ invocations[p].final # <<>> =>
                   DerefBuckets(heap, invocations[p].final)
                   = deduplicate_reviews(invocations[p].file, invocations[p].given.static,
                                         invocations[p].given.llm).final
            /\ Finished(p) => Outcome(p) = Alone(p)

\* One invocation returned two ranked records while the other one, on
\* another file, is in the middle of its ingestion
C23_Witness ==
    /\ invocations[1].file # invocations[2].file
    /\ invocations[1].pc = "returned"
    /\ Len(invocations[1].result) = 2
    /\ invocations[2].pc = "llm"
    /\ invocations[2].pos = 2

-----------------------------------------------------------------------------
(* Claims about the deduplicator's order of severities and of records: C29, C30 *)

\* The severities the ranker has a weight for
RankerSeverities == {"low", "medium", "high", "critical"}

\* C29: when the records that share a key all have a severity the ranker
\* knows (low, medium, high, critical), the record deduplicate_reviews keeps
\* has the largest severity weight among them: no record of a larger weight
\* is discarded for one of a smaller weight.
C29_KeptRecordHasLargestWeight ==
    DedupReturned =>
        \A c \in Categories : \A i \in 1..Len(final[c]) :
            (\A k \in Group(c, i) : Sev(Ingested[k].issue) \in RankerSeverities) =>
                \A k \in Group(c, i) :
                    WeightOf(Sev(final[c][i])) >= WeightOf(Sev(Ingested[k].issue))

\* The place in the ingestion order where the key of an issue of category c
\* first occurs
FirstIngestion(c, issue) ==
    LET same == {k \in DOMAIN Ingested :
                    /\ Ingested[k].category = c
                    /\ _normalize_issue(Ingested[k].issue) = _normalize_issue(issue)}
    IN  CHOOSE k \in same : \A j \in same : k <= j

\* C30: the records of each output list of deduplicate_reviews are in the
\* order in which their keys were first ingested (static before llm), also
\* when a later record has replaced the first holder of a key; and ranked
\* records of equal impact are in the order of their categories and, within
\* a category, of the first ingestion of their keys.
C30_OrderOfFirstIngestion ==
    /\ DedupReturned =>
          \A c \in Categories : \A i, j \in 1..Len(final[c]) :
              i < j => FirstIngestion(c, final[c][i]) < FirstIngestion(c, final[c][j])
    /\ pc = "ranked" =>
          \A p, q \in 1..Len(ranked) :
              (p < q /\ ranked[p]["impact"] = ranked[q]["impact"]) =>
                  \/ CategoryIndex(ranked[p]["category"]) < CategoryIndex(ranked[q]["category"])
                  \/ /\ ranked[p]["category"] = ranked[q]["category"]
                     /\ FirstIngestion(ranked[p]["category"], ranked[p])
                        < FirstIngestion(ranked[q]["category"], ranked[q])

\* A record ingested third replaced the holder of the key ingested first and
\* is ranked before the record ingested second, of the same impact
C30_Witness ==
    /\ pc = "ranked"
    /\ Len(ranked) = 2
    /\ ranked[1]["impact"] = ranked[2]["impact"]
    /\ ranked[1]["category"] = ranked[2]["category"]
    /\ ranked[1]["message"] = 3
    /\ ranked[2]["message"] = 2

====
